---- MODULE Spec2Model ----
(***************************************************************************)
(* Model of the attribute handler of rafaelespinoza/logg                   *)
(* (internal/handler.go): the merge engine (mergeAttrs, mergeGroups), the  *)
(* group-path wrapper (applyGroupsToAttrs), the frame accumulator          *)
(* (WithAttrs, WithGroup, copyAppend), the record builder (Handle,         *)
(* buildRecordAttrs) and goroutines calling them concurrently (SpecConc).  *)
(* Beside it, the Emitter built on a handler (SpecEmitter) and the once-    *)
(* only configuration of the package's root logger (SpecRoot).             *)
(*                                                                         *)
(* A slog.Attr is a record [key, val].  A scalar slog.Value is             *)
(* [kind, v] with v an integer, a group value is [kind |-> "Group",        *)
(* attrs |-> <<...>>], and the zero Value is [kind |-> "Any", nil |-> TRUE]*)
(* A Go slice is a header [arr, len, cap] over an array held in a heap, so *)
(* that two slices sharing storage is something the model can observe.     *)
(***************************************************************************)
EXTENDS Integers, Sequences, FiniteSets, TLC

VARIABLES
    \* ---- merge engine, called on its own (SpecMerge) ----
    mheap,      \* attribute arrays: array id -> sequence of Attr
    mprev,      \* array id of prevList
    mnext,      \* array id of nextList
    mout,       \* array id of the list mergeAttrs returned (0 before the call)
    mpc,        \* "start", "merged", "wroteResult", "wroteInput" ("idle" outside SpecMerge)
    a0,         \* prevList as it was when mergeAttrs was called
    b0,         \* nextList as it was when mergeAttrs was called
    \* ---- handler (Spec) ----
    opts,       \* AttrHandler.opts: [ReplaceAttr, CaptureRecord, Level], the
                \* first two the name of a callback or "nil", Level the
                \* Leveler: <<>> for nil, <<l>> for one yielding level l
    handlers,   \* sequence of AttrHandler values: [goas |-> slice header,
                \* mtx |-> mutex id]
    fheap,      \* frame arrays: array id -> sequence of groupOrAttrs
    aheap,      \* attribute arrays passed to WithAttrs: id -> sequence of Attr
    captured,   \* the attributes of the record the sink received last
    lastOp,     \* the call made last: [op, h, ret], [op, h, rec, invoked]
                \* or [op, h, lvl, ret]
    calls,      \* the arguments of the replaceAttr calls of the last Handle
    mtx,        \* mutexes: mutex id -> the thread holding it, 0 if unlocked
    threads,    \* concurrent callers (SpecConc): thread id -> its locals
    \* ---- Emitter (SpecEmitter) ----
    emitters,   \* Emitter values by address: [lgr |-> minimum level of its
                \* logger, id |-> tracing ID, attrs |-> slice header]
    eheap,      \* attribute arrays of the emitters: id -> sequence of Attr
    emitted,    \* what the call made last handed to the logger: <<>> for
                \* nothing, <<attrs>> for one LogAttrs call
    ecall,      \* the Emitter call made last: [op, e, ...]
    ectx,       \* by Emitter, the context of the WithID call made on it
                \* last: <<>> before any, <<ctx>> after
    \* ---- root logger (SpecRoot) ----
    configureOnce,  \* sync.Once: TRUE once its function has run
    root,           \* the root logger: <<>> for nil, <<[lgr, versioning]>>
    written,        \* events written so far: sink -> count
    rcall           \* the package-level call made last: [op, ...]

mvars == <<mheap, mprev, mnext, mout, mpc, a0, b0>>
hvars == <<opts, handlers, fheap, aheap, captured, lastOp, calls, mtx, threads>>
evars == <<emitters, eheap, emitted, ecall, ectx>>
rvars == <<configureOnce, root, written, rcall>>
vars == <<mheap, mprev, mnext, mout, mpc, a0, b0,
          opts, handlers, fheap, aheap, captured, lastOp, calls, mtx, threads,
          emitters, eheap, emitted, ecall, ectx,
          configureOnce, root, written, rcall>>

----------------------------------------------------------------------------
(* Bounds *)
MaxVal == 2         \* scalar payloads range over 1..MaxVal
MaxLen == 2         \* longest list handed to mergeAttrs
MaxHandlers == 4    \* handlers alive at once (the root included)

----------------------------------------------------------------------------
(* Values and attributes *)

ZeroValue == [kind |-> "Any", nil |-> TRUE]
ZeroAttr == [key |-> "", val |-> ZeroValue]

IntAttr(k, n) == [key |-> k, val |-> [kind |-> "Int64", v |-> n]]

IsGroup(v) == v.kind = "Group"

IsEmptyGroup(v) == IsGroup(v) /\ Len(v.attrs) = 0

\* slog.GroupValue: the group keeps the attributes that are not empty groups.
GroupValue(as) ==
    [kind |-> "Group", attrs |-> SelectSeq(as, LAMBDA a : ~IsEmptyGroup(a.val))]

SlogGroupAttrs(key, attrs) == [key |-> key, val |-> GroupValue(attrs)]

Keys(list) == {list[i].key : i \in 1..Len(list)}

----------------------------------------------------------------------------
(* Merge engine *)

EmptyMap == [k \in {} |-> ZeroAttr]

MapPut(m, k, a) == [x \in (DOMAIN m) \cup {k} |-> IF x = k THEN a ELSE m[x]]

RECURSIVE mergeAttrs(_, _)
RECURSIVE Pass1Prev(_, _, _)
RECURSIVE Pass1Next(_, _, _)
RECURSIVE Pass2(_, _, _, _)

\* mergeGroups with the two groups' children handed over in the wrong order.
mergeGroupsSwapped(prev, next) ==
    IF ~IsGroup(prev.val) \/ ~IsGroup(next.val)
    THEN [attr |-> ZeroAttr, err |-> TRUE]
    ELSE [attr |-> SlogGroupAttrs(prev.key,
                       mergeAttrs(next.val.attrs, prev.val.attrs).list),
          err |-> FALSE]

\* mergeGroups: [attr, err]; err is TRUE when either side is not a group.
mergeGroups(prev, next) ==
    IF ~IsGroup(prev.val) \/ ~IsGroup(next.val)
    THEN [attr |-> ZeroAttr, err |-> TRUE]
    ELSE [attr |-> SlogGroupAttrs(prev.key,
                       mergeAttrs(prev.val.attrs, next.val.attrs).list),
          err |-> FALSE]

\* 1st pass over prevList, from index i: later items replace earlier ones.
Pass1Prev(list, i, m) ==
    IF i > Len(list) THEN m
    ELSE Pass1Prev(list, i + 1, MapPut(m, list[i].key, list[i]))

\* One step of the 1st pass over nextList.
Pass1NextStep(m, next) ==
    IF next.key \in DOMAIN m
       /\ IsGroup(m[next.key].val) /\ IsGroup(next.val)
       /\ ~mergeGroups(m[next.key], next).err
    THEN MapPut(m, next.key, mergeGroups(m[next.key], next).attr)
    ELSE MapPut(m, next.key, next)

Pass1Next(list, i, m) ==
    IF i > Len(list) THEN m
    ELSE Pass1Next(list, i + 1, Pass1NextStep(m, list[i]))

\* The 1st pass visiting nextList before prevList.
AttrsByKeyPrevLast(prevList, nextList) ==
    Pass1Prev(prevList, 1, Pass1Next(nextList, 1, EmptyMap))

\* attrsBykey after the 1st pass.
AttrsByKey(prevList, nextList) ==
    Pass1Next(nextList, 1, Pass1Prev(prevList, 1, EmptyMap))

\* One loop of the 2nd pass, from index i: st = [out, addedKeys].
Pass2(list, i, m, st) ==
    IF i > Len(list) THEN st
    ELSE IF list[i].key \notin st.addedKeys
         THEN Pass2(list, i + 1, m,
                    [out |-> Append(st.out, m[list[i].key]),
                     addedKeys |-> st.addedKeys \cup {list[i].key}])
         ELSE Pass2(list, i + 1, m, st)

\* The 2nd pass with its two loops in the wrong order.
Pass2OrderPrevFirst(prevList, nextList, m) ==
    Pass2(nextList, 1, m,
          Pass2(prevList, 1, m, [out |-> <<>>, addedKeys |-> {}])).out

\* 2nd pass: the loop over nextList, then the loop over prevList.
Pass2Order(prevList, nextList, m) ==
    Pass2(prevList, 1, m,
          Pass2(nextList, 1, m, [out |-> <<>>, addedKeys |-> {}])).out

\* mergeAttrs: list is the returned list; shares says whose storage the
\* returned slice is: "prev", "next", or "none" for a fresh allocation.
mergeAttrs(prevList, nextList) ==
    IF Len(prevList) > 0 /\ Len(nextList) < 1
    THEN [list |-> prevList, shares |-> "prev"]
    ELSE IF Len(prevList) < 1 /\ Len(nextList) > 0
    THEN [list |-> nextList, shares |-> "next"]
    ELSE IF Len(prevList) < 1 /\ Len(nextList) < 1
    THEN [list |-> <<>>, shares |-> "none"]
    ELSE [list |-> Pass2Order(prevList, nextList,
                              AttrsByKey(prevList, nextList)),
          shares |-> "none"]

----------------------------------------------------------------------------
(* The merge engine called on its own: SpecMerge *)

SeqsUpTo(S, n) == UNION {[1..k -> S] : k \in 0..n}

\* Attributes of the lists handed to mergeAttrs: scalars, groups, nested
\* groups and an empty group, colliding on the key "g".
PrevAttrUniverse ==
    {IntAttr("g", v) : v \in 1..MaxVal}
    \cup {IntAttr("x", 1)}
    \cup {SlogGroupAttrs("g", <<IntAttr("x", 1)>>)}
    \cup {SlogGroupAttrs("g", <<SlogGroupAttrs("h", <<IntAttr("x", 1)>>)>>)}
    \cup {SlogGroupAttrs("x", <<>>)}

NextAttrUniverse ==
    {IntAttr("g", v) : v \in 1..MaxVal}
    \cup {IntAttr("x", 1)}
    \cup {SlogGroupAttrs("g", <<IntAttr("y", 2)>>)}
    \cup {SlogGroupAttrs("g", <<SlogGroupAttrs("h", <<IntAttr("y", 2)>>)>>)}

\* The attribute a caller stores into a slice after the merge.
Sentinel == IntAttr("w", 0)

\* The handler is not involved in SpecMerge.
HandlerIdle ==
    /\ opts = [ReplaceAttr |-> "nil", CaptureRecord |-> "nil", Level |-> <<>>]
    /\ handlers = <<>>
    /\ fheap = <<>>
    /\ aheap = <<>>
    /\ captured = <<>>
    /\ lastOp = [op |-> "none"]
    /\ calls = <<>>
    /\ mtx = <<>>
    /\ threads = <<>>

\* No Emitter is involved.
EmitterIdle ==
    /\ emitters = <<>>
    /\ eheap = <<>>
    /\ emitted = <<>>
    /\ ecall = [op |-> "none"]
    /\ ectx = <<>>

\* The root logger is not involved.
RootIdle ==
    /\ configureOnce = FALSE
    /\ root = <<>>
    /\ written = <<>>
    /\ rcall = [op |-> "none"]

MergeInit ==
    /\ \E a \in SeqsUpTo(PrevAttrUniverse, MaxLen),
          b \in SeqsUpTo(NextAttrUniverse, MaxLen) :
          /\ mheap = <<a, b>>
          /\ a0 = a
          /\ b0 = b
    /\ mprev = 1
    /\ mnext = 2
    /\ mout = 0
    /\ mpc = "start"
    /\ HandlerIdle
    /\ EmitterIdle
    /\ RootIdle

\* out := mergeAttrs(prevList, nextList)
MergeCall ==
    /\ mpc = "start"
    /\ LET r == mergeAttrs(mheap[mprev], mheap[mnext])
       IN  CASE r.shares = "prev" -> mout' = mprev /\ mheap' = mheap
             [] r.shares = "next" -> mout' = mnext /\ mheap' = mheap
             [] OTHER -> mout' = Len(mheap) + 1 /\ mheap' = Append(mheap, r.list)
    /\ mpc' = "merged"
    /\ UNCHANGED <<mprev, mnext, a0, b0>>
    /\ UNCHANGED hvars
    /\ UNCHANGED <<evars, rvars>>

\* The caller stores into the returned slice: out[0] = Sentinel
WriteResult ==
    /\ mpc = "merged"
    /\ Len(mheap[mout]) > 0
    /\ mheap' = [mheap EXCEPT ![mout][1] = Sentinel]
    /\ mpc' = "wroteResult"
    /\ UNCHANGED <<mprev, mnext, mout, a0, b0>>
    /\ UNCHANGED hvars
    /\ UNCHANGED <<evars, rvars>>

\* The caller stores into one of the input slices after the merge.
WriteInput ==
    /\ mpc = "merged"
    /\ \E s \in {mprev, mnext} :
          /\ Len(mheap[s]) > 0
          /\ mheap' = [mheap EXCEPT ![s][1] = Sentinel]
    /\ mpc' = "wroteInput"
    /\ UNCHANGED <<mprev, mnext, mout, a0, b0>>
    /\ UNCHANGED hvars
    /\ UNCHANGED <<evars, rvars>>

MergeNext == MergeCall \/ WriteResult \/ WriteInput

SpecMerge == MergeInit /\ [][MergeNext]_vars

\* The list mergeAttrs returned, as the caller sees it.
MergeOut == mheap[mout]

----------------------------------------------------------------------------
(* Group-path wrapper *)

RECURSIVE WrapOutward(_, _, _)

\* The loop of applyGroupsToAttrs: wrap curr in groups[i], groups[i-1], ...
WrapOutward(groups, i, curr) ==
    IF i < 1 THEN curr
    ELSE WrapOutward(groups, i - 1, SlogGroupAttrs(groups[i], <<curr>>))

\* The wrapper stopping at the innermost group.
applyGroupsToAttrsInnermost(groups, data) ==
    IF Len(groups) = 0 THEN data
    ELSE <<SlogGroupAttrs(groups[Len(groups)], data)>>

\* applyGroupsToAttrs: with no group the data slice itself is returned.
applyGroupsToAttrs(groups, data) ==
    IF Len(groups) = 0 THEN data
    ELSE <<WrapOutward(groups, Len(groups) - 1,
                       SlogGroupAttrs(groups[Len(groups)], data))>>

----------------------------------------------------------------------------
(* Frame accumulator *)

InitialCap == 4

\* The zero groupOrAttrs; Attrs is the id of an attribute array, 0 for nil.
NilFrame == [GroupName |-> "", Attrs |-> 0]

\* Go's append on a slice header s = [arr, len, cap] over heap: in place
\* when capacity is left, else into a new, larger array.
SliceAppend(heap, s, x) ==
    IF s.len < s.cap
    THEN [heap |-> [heap EXCEPT ![s.arr][s.len + 1] = x],
          slice |-> [s EXCEPT !.len = s.len + 1]]
    ELSE LET newcap == IF s.cap = 0 THEN 1 ELSE 2 * s.cap
             grown == SubSeq(heap[s.arr], 1, s.len) \o <<x>>
                      \o [i \in 1..(newcap - s.len - 1) |-> NilFrame]
         IN  [heap |-> Append(heap, grown),
              slice |-> [arr |-> Len(heap) + 1, len |-> s.len + 1, cap |-> newcap]]

\* The first statement of copyAppend leaving out the allocation.
MakeFramesNone(heap, originals) == [heap |-> heap, slice |-> originals]

\* Line 103 of copyAppend: make([]T, len(originals), len(originals)+1).
MakeFrames(heap, originals) ==
    [heap |-> Append(heap, [i \in 1..(originals.len + 1) |-> NilFrame]),
     slice |-> [arr |-> Len(heap) + 1, len |-> originals.len,
                cap |-> originals.len + 1]]

\* Line 104 of copyAppend: copy(out, originals).
CopyFrames(heap, out, originals) ==
    [heap EXCEPT ![out.arr] =
        [i \in DOMAIN heap[out.arr] |->
            IF i <= out.len /\ i <= originals.len
            THEN heap[originals.arr][i] ELSE heap[out.arr][i]]]

\* append(originals, tail...) with no copy.
copyAppendInPlace(heap, originals, x) == SliceAppend(heap, originals, x)

\* copyAppend: make([]T, len(originals), len(originals)+1), copy, append.
copyAppend(heap, originals, x) ==
    LET made == MakeFrames(heap, originals)
        copied == CopyFrames(made.heap, made.slice, originals)
    IN  SliceAppend(copied, made.slice, x)

\* h.groupsOrAttrs as handler h observes it.
Frames(h) == SubSeq(fheap[handlers[h].goas.arr], 1, handlers[h].goas.len)

----------------------------------------------------------------------------
(* Record builder *)

TimeKey == "time"
LevelKey == "level"
MessageKey == "msg"

LevelInfo == 0

TimeAttr(t) == [key |-> TimeKey, val |-> [kind |-> "Time", v |-> t]]
LevelAttr(l) == [key |-> LevelKey, val |-> [kind |-> "Any", v |-> l]]
MsgAttr(m) == [key |-> MessageKey, val |-> [kind |-> "String", v |-> m]]

\* The ReplaceAttr callbacks a handler is configured with; "nil" is none.
ReplaceAttrNames == {"nil", "renameTime", "renameLevel", "renameMsg", "dropTime"}

replaceAttr(name, groups, a) ==
    CASE name = "renameTime" ->
           IF a.key = TimeKey THEN [a EXCEPT !.key = "timestamp"] ELSE a
      [] name = "renameLevel" ->
           IF a.key = LevelKey THEN [a EXCEPT !.key = "sev"] ELSE a
      [] name = "renameMsg" ->
           IF a.key = MessageKey THEN [a EXCEPT !.key = "message"] ELSE a
      [] name = "dropTime" ->
           IF Len(groups) < 1 /\ a.key = TimeKey THEN ZeroAttr ELSE a
      [] OTHER -> a

\* for i, attr := range list { list[i] = replaceAttr(groupPath, attr) }
ReplaceAll(name, groups, list) ==
    IF name = "nil" THEN list
    ELSE [i \in 1..Len(list) |-> replaceAttr(name, groups, list[i])]

\* Value.Resolve: a LogValuer yields the value it resolves to.
Resolve(v) == IF v.kind = "LogValuer" THEN v.resolved ELSE v

\* Record.AddAttrs: empty groups are not stored on the record.
AddAttrs(as) == SelectSeq(as, LAMBDA a : ~IsEmptyGroup(a.val))

\* The built-in attributes with the message left as it is.
BuiltInsMsgUnreplaced(name, rec) ==
    (IF rec.Time # 0 THEN <<replaceAttr(name, <<>>, TimeAttr(rec.Time))>> ELSE <<>>)
    \o <<replaceAttr(name, <<>>, LevelAttr(rec.Level))>>
    \o <<MsgAttr(rec.Message)>>

\* The built-in attributes, lines 121-146.
BuiltIns(name, rec) ==
    (IF rec.Time # 0 THEN <<replaceAttr(name, <<>>, TimeAttr(rec.Time))>> ELSE <<>>)
    \o <<replaceAttr(name, <<>>, LevelAttr(rec.Level))>>
    \o <<replaceAttr(name, <<>>, MsgAttr(rec.Message))>>

RECURSIVE TrimGroups(_)

\* Every group frame dropped, wherever it stands.
TrimGroupsEverywhere(goas) == SelectSeq(goas, LAMBDA f : f.GroupName = "")

\* Without record attributes, the groups at the end of goas are dropped.
TrimGroups(goas) ==
    IF Len(goas) > 0 /\ goas[Len(goas)].GroupName # ""
    THEN TrimGroups(SubSeq(goas, 1, Len(goas) - 1))
    ELSE goas

RECURSIVE GoasLoop(_, _, _, _)

\* The loop over goas from index i; st = [out, groupPath, heap], heap being
\* the attribute arrays.  With an empty groupPath subGroup is the stored
\* batch itself, so the replaced attributes are stored into that batch.
GoasLoop(name, goas, i, st) ==
    IF i > Len(goas) THEN st
    ELSE IF goas[i].GroupName # ""
    THEN GoasLoop(name, goas, i + 1,
                  [st EXCEPT !.groupPath = Append(st.groupPath, goas[i].GroupName)])
    ELSE LET subGroup == ReplaceAll(name, st.groupPath,
                             applyGroupsToAttrs(st.groupPath, st.heap[goas[i].Attrs]))
         IN  GoasLoop(name, goas, i + 1,
                 [out |-> mergeAttrs(st.out, subGroup).list,
                  groupPath |-> st.groupPath,
                  heap |-> IF Len(st.groupPath) = 0 /\ name # "nil"
                           THEN [st.heap EXCEPT ![goas[i].Attrs] = subGroup]
                           ELSE st.heap])

RECURSIVE RecordAttrs(_, _)

\* The rec.Attrs callback keeping a group with an empty key as it is.
RecordAttrsNoInline(attrs, i) ==
    IF i > Len(attrs) THEN <<>>
    ELSE LET attr == [attrs[i] EXCEPT !.val = Resolve(attrs[i].val)]
         IN  (IF attr = ZeroAttr THEN <<>>
              ELSE IF ~IsGroup(attr.val) THEN <<attr>>
              ELSE <<SlogGroupAttrs(attr.key, attr.val.attrs)>>)
             \o RecordAttrs(attrs, i + 1)

\* The rec.Attrs callback, from attribute i on.
RecordAttrs(attrs, i) ==
    IF i > Len(attrs) THEN <<>>
    ELSE LET attr == [attrs[i] EXCEPT !.val = Resolve(attrs[i].val)]
         IN  (IF attr = ZeroAttr THEN <<>>
              ELSE IF ~IsGroup(attr.val) THEN <<attr>>
              ELSE IF attr.key # "" THEN <<SlogGroupAttrs(attr.key, attr.val.attrs)>>
              ELSE attr.val.attrs)
             \o RecordAttrs(attrs, i + 1)

\* The end of buildRecordAttrs merging where it should append.
AddRecordAttrsAlwaysMerge(out, groupPath, applied) == mergeAttrs(out, applied).list

\* The end of buildRecordAttrs appending where it should merge.
AddRecordAttrsAlwaysAppend(out, groupPath, applied) == out \o applied

\* Lines 218-223: append without a group, merge under a group.
AddRecordAttrs(out, groupPath, applied) ==
    IF Len(groupPath) < 1 THEN out \o applied
    ELSE mergeAttrs(out, applied).list

\* buildRecordAttrs: [out, heap], heap being the attribute arrays afterwards.
buildRecordAttrs(name, frames, rec, heap) ==
    LET goas == IF Len(rec.Attrs) < 1 THEN TrimGroups(frames) ELSE frames
        st == GoasLoop(name, goas, 1,
                       [out |-> BuiltIns(name, rec), groupPath |-> <<>>, heap |-> heap])
        recordAttrs == ReplaceAll(name, st.groupPath, RecordAttrs(rec.Attrs, 1))
        applied == ReplaceAll(name, st.groupPath,
                              applyGroupsToAttrs(st.groupPath, recordAttrs))
    IN  [out |-> AddRecordAttrs(st.out, st.groupPath, applied), heap |-> st.heap]

\* The arguments of the replaceAttr calls over list, in order.
CallsOver(name, groups, list) ==
    IF name = "nil" THEN <<>>
    ELSE [i \in 1..Len(list) |-> [groups |-> groups, attr |-> list[i]]]

RECURSIVE GoasCalls(_, _, _, _, _)

\* The replaceAttr calls of the loop over goas from index i (lines 165-167):
\* one for each element of subGroup.
GoasCalls(name, goas, i, groupPath, heap) ==
    IF i > Len(goas) THEN <<>>
    ELSE IF goas[i].GroupName # ""
    THEN GoasCalls(name, goas, i + 1, Append(groupPath, goas[i].GroupName), heap)
    ELSE CallsOver(name, groupPath,
                   applyGroupsToAttrs(groupPath, heap[goas[i].Attrs]))
         \o GoasCalls(name, goas, i + 1, groupPath, heap)

\* The arguments of every replaceAttr call buildRecordAttrs makes, in order.
replaceAttrCalls(name, frames, rec, heap) ==
    LET goas == IF Len(rec.Attrs) < 1 THEN TrimGroups(frames) ELSE frames
        st == GoasLoop(name, goas, 1,
                       [out |-> <<>>, groupPath |-> <<>>, heap |-> heap])
        recordAttrs == RecordAttrs(rec.Attrs, 1)
        replaced == ReplaceAll(name, st.groupPath, recordAttrs)
    IN  CallsOver(name, <<>>,
                  (IF rec.Time # 0 THEN <<TimeAttr(rec.Time)>> ELSE <<>>)
                  \o <<LevelAttr(rec.Level), MsgAttr(rec.Message)>>)
        \o GoasCalls(name, goas, 1, <<>>, heap)
        \o CallsOver(name, st.groupPath, recordAttrs)
        \o CallsOver(name, st.groupPath,
                     applyGroupsToAttrs(st.groupPath, replaced))

\* A Lock that returns whether or not the mutex is held.
UnlockedAlways(ms, m) == TRUE

LevelDebug == -4
LevelWarn == 4
LevelError == 8

\* Enabled comparing with > instead of >=.
EnabledStrict(o, lvl) ==
    LET level == IF o.Level # <<>> THEN o.Level[1] ELSE LevelInfo
    IN  lvl > level

\* Enabled, lines 38-45, on a handler whose options are o.
Enabled(o, lvl) ==
    LET level == IF o.Level # <<>> THEN o.Level[1] ELSE LevelInfo
    IN  lvl >= level

\* sync.Mutex: Lock returns once the mutex m is unlocked.
Unlocked(ms, m) == ms[m] = 0

\* The capture callback called even when it is nil.
ShouldCaptureAlways(o) == TRUE

\* Line 59: the capture callback is called if it is not nil.
ShouldCapture(o) == o.CaptureRecord # "nil"

----------------------------------------------------------------------------
(* The handler: Spec *)

\* The handler-side state as one value: [handlers, fheap, aheap].
NewAttrHandler ==
    [handlers |-> <<[goas |-> [arr |-> 1, len |-> 0, cap |-> InitialCap], mtx |-> 1]>>,
     fheap |-> <<[i \in 1..InitialCap |-> NilFrame]>>,
     aheap |-> <<>>]

\* h.WithAttrs(attrs) on hs, attrs being a slice the caller just built:
\* [hs, ret], ret being the handler returned.
WithAttrsOn(hs, h, attrs) ==
    IF Len(attrs) = 0 THEN [hs |-> hs, ret |-> h]
    ELSE LET r == copyAppend(hs.fheap, hs.handlers[h].goas,
                             [GroupName |-> "", Attrs |-> Len(hs.aheap) + 1])
         IN  [hs |-> [handlers |-> Append(hs.handlers, [hs.handlers[h] EXCEPT !.goas = r.slice]),
                      fheap |-> r.heap,
                      aheap |-> Append(hs.aheap, attrs)],
              ret |-> Len(hs.handlers) + 1]

\* h.WithGroup(name) without the test for the empty name.
WithGroupOnAnyName(hs, h, name) ==
    LET r == copyAppend(hs.fheap, hs.handlers[h].goas,
                        [GroupName |-> name, Attrs |-> 0])
    IN  [hs |-> [handlers |-> Append(hs.handlers, [hs.handlers[h] EXCEPT !.goas = r.slice]),
                 fheap |-> r.heap,
                 aheap |-> hs.aheap],
         ret |-> Len(hs.handlers) + 1]

\* h.WithGroup(name) on hs: [hs, ret]
WithGroupOn(hs, h, name) ==
    IF name = "" THEN [hs |-> hs, ret |-> h]
    ELSE LET r == copyAppend(hs.fheap, hs.handlers[h].goas,
                             [GroupName |-> name, Attrs |-> 0])
         IN  [hs |-> [handlers |-> Append(hs.handlers, [hs.handlers[h] EXCEPT !.goas = r.slice]),
                      fheap |-> r.heap,
                      aheap |-> hs.aheap],
              ret |-> Len(hs.handlers) + 1]

HandlerState == [handlers |-> handlers, fheap |-> fheap, aheap |-> aheap]

GroupNames == {"", "G"}

\* The slices callers pass to WithAttrs.
Batches == {<<>>, <<IntAttr(LevelKey, 1)>>}

\* The records callers pass to Handle: slog.NewRecord, then AddAttrs; the
\* zero time is 0.
RecordsAt(times) ==
    {[Time |-> t, Level |-> LevelInfo, Message |-> 1, Attrs |-> AddAttrs(as)] :
        t \in times, as \in {<<>>, <<IntAttr("y", 2)>>}}

Records == RecordsAt({0, 1})

MergeIdle ==
    /\ mheap = <<>>
    /\ mprev = 0
    /\ mnext = 0
    /\ mout = 0
    /\ mpc = "idle"
    /\ a0 = <<>>
    /\ b0 = <<>>

\* NewAttrHandler(opts): no ReplaceAttr, or one that changes an attribute
\* a batch holds.
Init ==
    /\ \E name \in {"nil", "renameLevel"} :
          opts = [ReplaceAttr |-> name, CaptureRecord |-> "capture", Level |-> <<>>]
    /\ handlers = NewAttrHandler.handlers
    /\ fheap = NewAttrHandler.fheap
    /\ aheap = NewAttrHandler.aheap
    /\ captured = <<>>
    /\ lastOp = [op |-> "NewAttrHandler"]
    /\ calls = <<>>
    /\ mtx = <<0>>
    /\ threads = <<>>
    /\ MergeIdle
    /\ EmitterIdle
    /\ RootIdle

\* h.WithAttrs(attrs)
WithAttrs(h, attrs) ==
    /\ Len(handlers) < MaxHandlers
    /\ LET r == WithAttrsOn(HandlerState, h, attrs)
       IN  /\ handlers' = r.hs.handlers
           /\ fheap' = r.hs.fheap
           /\ aheap' = r.hs.aheap
           /\ lastOp' = [op |-> "WithAttrs", h |-> h, ret |-> r.ret]
    /\ UNCHANGED <<opts, captured, calls, mtx, threads>>
    /\ UNCHANGED mvars
    /\ UNCHANGED <<evars, rvars>>

\* h.WithGroup(name)
WithGroup(h, name) ==
    /\ Len(handlers) < MaxHandlers
    /\ LET r == WithGroupOn(HandlerState, h, name)
       IN  /\ handlers' = r.hs.handlers
           /\ fheap' = r.hs.fheap
           /\ aheap' = r.hs.aheap
           /\ lastOp' = [op |-> "WithGroup", h |-> h, ret |-> r.ret]
    /\ UNCHANGED <<opts, captured, calls, mtx, threads>>
    /\ UNCHANGED mvars
    /\ UNCHANGED <<evars, rvars>>

\* Handle returning early for a record Enabled would turn down.
HandleIfEnabled(h, rec) ==
    /\ Unlocked(mtx, handlers[h].mtx)
    /\ LET r == buildRecordAttrs(opts.ReplaceAttr, Frames(h), rec, aheap)
           on == Enabled(opts, rec.Level)
       IN  /\ captured' = IF on /\ ShouldCapture(opts) THEN AddAttrs(r.out)
                                                       ELSE captured
           /\ aheap' = IF on THEN r.heap ELSE aheap
           /\ calls' = IF on THEN replaceAttrCalls(opts.ReplaceAttr, Frames(h), rec, aheap)
                            ELSE calls
           /\ lastOp' = [op |-> "Handle", h |-> h, rec |-> rec,
                         invoked |-> IF on /\ ShouldCapture(opts) THEN 1 ELSE 0]
    /\ UNCHANGED <<opts, handlers, fheap, mtx, threads>>
    /\ UNCHANGED mvars
    /\ UNCHANGED <<evars, rvars>>

\* h.Handle(ctx, rec) by a single caller: build the attributes, lock, hand
\* the cloned record to the capture callback if there is one, unlock.
Handle(h, rec) ==
    /\ Unlocked(mtx, handlers[h].mtx)
    /\ LET r == buildRecordAttrs(opts.ReplaceAttr, Frames(h), rec, aheap)
       IN  /\ captured' = IF ShouldCapture(opts) THEN AddAttrs(r.out)
                                                 ELSE captured
           /\ aheap' = r.heap
    /\ calls' = replaceAttrCalls(opts.ReplaceAttr, Frames(h), rec, aheap)
    /\ lastOp' = [op |-> "Handle", h |-> h, rec |-> rec,
                  invoked |-> IF ShouldCapture(opts) THEN 1 ELSE 0]
    /\ UNCHANGED <<opts, handlers, fheap, mtx, threads>>
    /\ UNCHANGED mvars
    /\ UNCHANGED <<evars, rvars>>

Next ==
    \/ \E h \in DOMAIN handlers, attrs \in Batches : WithAttrs(h, attrs)
    \/ \E h \in DOMAIN handlers, name \in GroupNames : WithGroup(h, name)
    \/ \E h \in DOMAIN handlers, rec \in RecordsAt({1}) : Handle(h, rec)

Spec == Init /\ [][Next]_vars

----------------------------------------------------------------------------
(* The record builder on every lineage: SpecBuild *)

MaxFrames == 3

\* One derivation of a lineage: a group name or an attribute batch.
LineageSteps ==
    {[GroupName |-> n, Attrs |-> <<>>] : n \in {"G", "H"}}
    \cup {[GroupName |-> "", Attrs |-> as] :
             as \in {<<IntAttr("x", 1)>>, <<IntAttr(LevelKey, 1)>>, <<ZeroAttr>>}}

RECURSIVE Derive(_, _, _)

\* The handlers after the derivations lineage[i..], each made on the
\* handler the one before returned.
Derive(hs, lineage, i) ==
    IF i > Len(lineage) THEN hs
    ELSE LET h == Len(hs.handlers)
             r == IF lineage[i].GroupName # ""
                  THEN WithGroupOn(hs, h, lineage[i].GroupName)
                  ELSE WithAttrsOn(hs, h, lineage[i].Attrs)
         IN  Derive(r.hs, lineage, i + 1)

\* NewAttrHandler(opts) followed by a chain of WithGroup/WithAttrs calls.
BuildInit ==
    /\ \E name \in ReplaceAttrNames :
          opts = [ReplaceAttr |-> name, CaptureRecord |-> "capture", Level |-> <<>>]
    /\ \E lineage \in [1..MaxFrames -> LineageSteps] :
          LET hs == Derive(NewAttrHandler, lineage, 1)
          IN  /\ handlers = hs.handlers
              /\ fheap = hs.fheap
              /\ aheap = hs.aheap
    /\ captured = <<>>
    /\ lastOp = [op |-> "NewAttrHandler"]
    /\ calls = <<>>
    /\ mtx = <<0>>
    /\ threads = <<>>
    /\ MergeIdle
    /\ EmitterIdle
    /\ RootIdle

\* The attribute lists of the records handed to Handle in SpecBuild: none,
\* a scalar, a key of a built-in, zero attributes, groups with an empty and
\* with a non-empty key.
BuildRecordAttrLists ==
    {<<>>,
     <<IntAttr("y", 2)>>,
     <<IntAttr(LevelKey, 2)>>,
     <<ZeroAttr>>,
     <<ZeroAttr, SlogGroupAttrs("", <<ZeroAttr, IntAttr("z", 1)>>)>>,
     <<IntAttr("a", 1),
       SlogGroupAttrs("", <<IntAttr("x", 1), SlogGroupAttrs("", <<IntAttr("z", 1)>>)>>),
       SlogGroupAttrs("g", <<IntAttr("x", 1)>>)>>}

BuildRecords ==
    {[Time |-> t, Level |-> LevelInfo, Message |-> 1, Attrs |-> AddAttrs(as)] :
        t \in {0, 1}, as \in BuildRecordAttrLists}

\* One Handle call on a handler of the chain.
BuildNext ==
    /\ lastOp.op = "NewAttrHandler"
    /\ \E h \in DOMAIN handlers, rec \in BuildRecords : Handle(h, rec)

SpecBuild == BuildInit /\ [][BuildNext]_vars

\* What the frames of handler h hold, batches by value.
Lineage(h) ==
    [i \in 1..Len(Frames(h)) |->
        IF Frames(h)[i].GroupName # "" THEN [GroupName |-> Frames(h)[i].GroupName, Attrs |-> <<>>]
        ELSE [GroupName |-> "", Attrs |-> aheap[Frames(h)[i].Attrs]]]


----------------------------------------------------------------------------
(* The minimum level: SpecLevel *)

\* The levels of records and of Enabled calls.
Levels == {LevelDebug, LevelInfo, LevelWarn, LevelError}

\* opts.Level: nil, or a Leveler for one of the levels of the test.
LevelOptions == {<<>>} \cup {<<l>> : l \in Levels \cup {LevelError + 1}}

LevelRecords ==
    {[Time |-> 1, Level |-> l, Message |-> 1, Attrs |-> <<IntAttr("y", 2)>>] :
        l \in Levels}

\* NewAttrHandler(opts) with or without a Level, followed by a chain of
\* WithGroup/WithAttrs calls.
LevelInit ==
    /\ \E lev \in LevelOptions :
          opts = [ReplaceAttr |-> "nil", CaptureRecord |-> "capture", Level |-> lev]
    /\ \E lineage \in [1..MaxFrames ->
                          {[GroupName |-> "G", Attrs |-> <<>>],
                           [GroupName |-> "", Attrs |-> <<IntAttr("x", 1)>>]}] :
          LET hs == Derive(NewAttrHandler, lineage, 1)
          IN  /\ handlers = hs.handlers
              /\ fheap = hs.fheap
              /\ aheap = hs.aheap
    /\ captured = <<>>
    /\ lastOp = [op |-> "NewAttrHandler"]
    /\ calls = <<>>
    /\ mtx = <<0>>
    /\ threads = <<>>
    /\ MergeIdle
    /\ EmitterIdle
    /\ RootIdle

\* h.Enabled(ctx, lvl)
EnabledCall(h, lvl) ==
    /\ lastOp' = [op |-> "Enabled", h |-> h, lvl |-> lvl, ret |-> Enabled(opts, lvl)]
    /\ UNCHANGED <<opts, handlers, fheap, aheap, captured, calls, mtx, threads>>
    /\ UNCHANGED mvars
    /\ UNCHANGED <<evars, rvars>>

\* One Enabled or Handle call on a handler of the chain.
LevelNext ==
    /\ lastOp.op = "NewAttrHandler"
    /\ \/ \E h \in DOMAIN handlers, lvl \in Levels : EnabledCall(h, lvl)
       \/ \E h \in DOMAIN handlers, rec \in LevelRecords : Handle(h, rec)

SpecLevel == LevelInit /\ [][LevelNext]_vars

----------------------------------------------------------------------------
(* Concurrent callers of one handler family: SpecConc *)

MaxThreads == 2

\* A goroutine that has not made its call yet.
IdleThread ==
    [pc |-> "idle", op |-> "none", h |-> 0, frame |-> NilFrame,
     rec |-> [Time |-> 0, Level |-> LevelInfo, Message |-> 0, Attrs |-> <<>>],
     out |-> [arr |-> 0, len |-> 0, cap |-> 0],
     built |-> <<>>, invoked |-> 0, err |-> "nil", retH |-> 0, retErr |-> "nil"]

ConcRecords == {r \in RecordsAt({1}) : r.Attrs # <<>>}

\* The derivations that have not returned yet.
Deriving == {t \in DOMAIN threads : threads[t].pc \in {"make", "copy", "append", "return"}}

\* NewAttrHandler(opts) and one WithAttrs on it; nil options are the case
\* of both callbacks nil.  The goroutines have made no call yet.
ConcInit ==
    /\ opts \in {[ReplaceAttr |-> "nil", CaptureRecord |-> "nil", Level |-> <<>>],
                 [ReplaceAttr |-> "nil", CaptureRecord |-> "capture", Level |-> <<>>],
                 [ReplaceAttr |-> "renameLevel", CaptureRecord |-> "capture",
                  Level |-> <<>>]}
    /\ LET hs == WithAttrsOn(NewAttrHandler, 1, <<IntAttr(LevelKey, 1)>>).hs
       IN  /\ handlers = hs.handlers
           /\ fheap = hs.fheap
           /\ aheap = hs.aheap
    /\ captured = <<>>
    /\ lastOp = [op |-> "NewAttrHandler"]
    /\ calls = <<>>
    /\ mtx = <<0>>
    /\ threads = [t \in 1..MaxThreads |-> IdleThread]
    /\ MergeIdle
    /\ EmitterIdle
    /\ RootIdle

\* Goroutine t calls h.WithGroup(name): lines 84-86.
CallWithGroup(t, h, name) ==
    /\ threads[t].pc = "idle"
    /\ Len(handlers) + Cardinality(Deriving) < MaxHandlers
    /\ threads' = [threads EXCEPT ![t] =
          IF name = ""
          THEN [@ EXCEPT !.pc = "done", !.op = "WithGroup", !.h = h, !.retH = h]
          ELSE [@ EXCEPT !.pc = "make", !.op = "WithGroup", !.h = h,
                         !.frame = [GroupName |-> name, Attrs |-> 0]]]
    /\ UNCHANGED <<opts, handlers, fheap, aheap, captured, lastOp, calls, mtx>>
    /\ UNCHANGED mvars
    /\ UNCHANGED <<evars, rvars>>

\* Goroutine t calls h.WithAttrs(attrs) with a slice it has just built:
\* lines 66-68.
CallWithAttrs(t, h, attrs) ==
    /\ threads[t].pc = "idle"
    /\ Len(handlers) + Cardinality(Deriving) < MaxHandlers
    /\ IF Len(attrs) = 0
       THEN /\ threads' = [threads EXCEPT ![t] =
                  [@ EXCEPT !.pc = "done", !.op = "WithAttrs", !.h = h, !.retH = h]]
            /\ aheap' = aheap
       ELSE /\ threads' = [threads EXCEPT ![t] =
                  [@ EXCEPT !.pc = "make", !.op = "WithAttrs", !.h = h,
                            !.frame = [GroupName |-> "", Attrs |-> Len(aheap) + 1]]]
            /\ aheap' = Append(aheap, attrs)
    /\ UNCHANGED <<opts, handlers, fheap, captured, lastOp, calls, mtx>>
    /\ UNCHANGED mvars
    /\ UNCHANGED <<evars, rvars>>

\* copyAppend, line 103.
Make(t) ==
    /\ threads[t].pc = "make"
    /\ LET r == MakeFrames(fheap, handlers[threads[t].h].goas)
       IN  /\ fheap' = r.heap
           /\ threads' = [threads EXCEPT ![t].pc = "copy", ![t].out = r.slice]
    /\ UNCHANGED <<opts, handlers, aheap, captured, lastOp, calls, mtx>>
    /\ UNCHANGED mvars
    /\ UNCHANGED <<evars, rvars>>

\* copyAppend, line 104.
Copy(t) ==
    /\ threads[t].pc = "copy"
    /\ fheap' = CopyFrames(fheap, threads[t].out, handlers[threads[t].h].goas)
    /\ threads' = [threads EXCEPT ![t].pc = "append"]
    /\ UNCHANGED <<opts, handlers, aheap, captured, lastOp, calls, mtx>>
    /\ UNCHANGED mvars
    /\ UNCHANGED <<evars, rvars>>

\* copyAppend, line 105.
AppendFrame(t) ==
    /\ threads[t].pc = "append"
    /\ LET r == SliceAppend(fheap, threads[t].out, threads[t].frame)
       IN  /\ fheap' = r.heap
           /\ threads' = [threads EXCEPT ![t].pc = "return", ![t].out = r.slice]
    /\ UNCHANGED <<opts, handlers, aheap, captured, lastOp, calls, mtx>>
    /\ UNCHANGED mvars
    /\ UNCHANGED <<evars, rvars>>

\* WithAttrs/WithGroup return the copy of *h holding the new slice.
Return(t) ==
    /\ threads[t].pc = "return"
    /\ handlers' = Append(handlers,
                          [handlers[threads[t].h] EXCEPT !.goas = threads[t].out])
    /\ threads' = [threads EXCEPT ![t].pc = "done", ![t].retH = Len(handlers) + 1]
    /\ UNCHANGED <<opts, fheap, aheap, captured, lastOp, calls, mtx>>
    /\ UNCHANGED mvars
    /\ UNCHANGED <<evars, rvars>>

\* Goroutine t calls h.Handle(ctx, rec) and enters buildRecordAttrs
\* (line 48).
CallHandle(t, h, rec) ==
    /\ threads[t].pc = "idle"
    /\ threads' = [threads EXCEPT ![t] =
          [@ EXCEPT !.pc = "building", !.op = "Handle", !.h = h, !.rec = rec]]
    /\ UNCHANGED <<opts, handlers, fheap, aheap, captured, lastOp, calls, mtx>>
    /\ UNCHANGED mvars
    /\ UNCHANGED <<evars, rvars>>

\* The attribute arrays buildRecordAttrs stores into for handler h: the
\* batches attached with no group in effect, when ReplaceAttr is set
\* (lines 164-167).
StoredInto(h) ==
    IF opts.ReplaceAttr = "nil" THEN {}
    ELSE {Frames(h)[i].Attrs :
            i \in {j \in DOMAIN Frames(h) :
                      /\ Frames(h)[j].GroupName = ""
                      /\ \A k \in 1..j : Frames(h)[k].GroupName = ""}}

\* Another goroutine is inside buildRecordAttrs storing into an array
\* that t stores into: a data race.
Racing(t) ==
    \E u \in DOMAIN threads \ {t} :
        /\ threads[u].pc = "building"
        /\ StoredInto(threads[t].h) \cap StoredInto(threads[u].h) # {}

\* Handle, lines 48-55: buildRecordAttrs returns and the attributes are
\* added to the clone.  Under a data race each array written is left as it
\* was or as this call wrote it.
BuildEnd(t) ==
    /\ threads[t].pc = "building"
    /\ LET r == buildRecordAttrs(opts.ReplaceAttr, Frames(threads[t].h),
                                 threads[t].rec, aheap)
       IN  /\ \E heap \in (IF Racing(t) THEN {aheap, r.heap} ELSE {r.heap}) :
                 aheap' = heap
           /\ threads' = [threads EXCEPT ![t].pc = "lock",
                                         ![t].built = AddAttrs(r.out)]
    /\ UNCHANGED <<opts, handlers, fheap, captured, lastOp, calls, mtx>>
    /\ UNCHANGED mvars
    /\ UNCHANGED <<evars, rvars>>

\* Handle, line 57: h.mtx.Lock().
Lock(t) ==
    /\ threads[t].pc = "lock"
    /\ Unlocked(mtx, handlers[threads[t].h].mtx)
    /\ mtx' = [mtx EXCEPT ![handlers[threads[t].h].mtx] = t]
    /\ threads' = [threads EXCEPT ![t].pc = "locked"]
    /\ UNCHANGED <<opts, handlers, fheap, aheap, captured, lastOp, calls>>
    /\ UNCHANGED mvars
    /\ UNCHANGED <<evars, rvars>>

\* Handle, lines 59-61: the capture callback is entered, if there is one.
Capture(t) ==
    /\ threads[t].pc = "locked"
    /\ IF ShouldCapture(opts)
       THEN /\ threads' = [threads EXCEPT ![t].pc = "capturing",
                                          ![t].invoked = @ + 1]
            /\ captured' = threads[t].built
       ELSE /\ threads' = [threads EXCEPT ![t].pc = "unlock"]
            /\ captured' = captured
    /\ UNCHANGED <<opts, handlers, fheap, aheap, lastOp, calls, mtx>>
    /\ UNCHANGED mvars
    /\ UNCHANGED <<evars, rvars>>

\* The capture callback returns nil or an error.
CaptureReturn(t) ==
    /\ threads[t].pc = "capturing"
    /\ \E e \in {"nil", "err"} :
          threads' = [threads EXCEPT ![t].pc = "unlock", ![t].err = e]
    /\ UNCHANGED <<opts, handlers, fheap, aheap, captured, lastOp, calls, mtx>>
    /\ UNCHANGED mvars
    /\ UNCHANGED <<evars, rvars>>

\* Handle returns err; the deferred h.mtx.Unlock() runs.
Unlock(t) ==
    /\ threads[t].pc = "unlock"
    /\ mtx' = [mtx EXCEPT ![handlers[threads[t].h].mtx] = 0]
    /\ threads' = [threads EXCEPT ![t].pc = "done", ![t].retErr = threads[t].err]
    /\ UNCHANGED <<opts, handlers, fheap, aheap, captured, lastOp, calls>>
    /\ UNCHANGED mvars
    /\ UNCHANGED <<evars, rvars>>

ConcNext ==
    \E t \in DOMAIN threads :
        \/ \E h \in DOMAIN handlers, name \in GroupNames : CallWithGroup(t, h, name)
        \/ \E h \in DOMAIN handlers : CallWithAttrs(t, h, <<IntAttr("x", 1)>>)
        \/ Make(t)
        \/ Copy(t)
        \/ AppendFrame(t)
        \/ Return(t)
        \/ \E h \in DOMAIN handlers, rec \in ConcRecords : CallHandle(t, h, rec)
        \/ BuildEnd(t)
        \/ Lock(t)
        \/ Capture(t)
        \/ CaptureReturn(t)
        \/ Unlock(t)

SpecConc == ConcInit /\ [][ConcNext]_vars

----------------------------------------------------------------------------
(* Emitter (emitter.go, id.go, log in logg.go)                             *)
(*                                                                         *)
(* An Emitter is addressed by its index in emitters, so that a method      *)
(* returning its receiver and one returning a new Emitter differ.  The     *)
(* versioning attributes go to the logger at construction and play no part *)
(* in what follows.                                                        *)

MaxEmitters == 2    \* Emitter values alive at once

ErrorFieldName == "error"
TraceIDFieldName == "x_trace_id"
DataFieldName == "data"

StringAttr(k, s) == [key |-> k, val |-> [kind |-> "String", v |-> s]]

\* A context.Context, as far as the tracing ID goes: <<>> holds none,
\* <<val>> holds val.
Background == <<>>

SetID(ctx, val) == <<val>>

GetID(ctx) ==
    IF ctx = <<>>
    THEN [id |-> "", found |-> FALSE]
    ELSE [id |-> ctx[1], found |-> TRUE]

EAttrs(heap, s) == IF s.len = 0 THEN <<>> ELSE SubSeq(heap[s.arr], 1, s.len)

\* The first pass of the Emitter's mergeAttrs: the attribute each key ends
\* up with, prevList visited before nextList, later items replacing earlier.
EmitterAttrsByKey(prevList, nextList) ==
    LET all == prevList \o nextList
    IN  [k \in Keys(all) |->
            all[CHOOSE i \in 1..Len(all) :
                    all[i].key = k /\ \A j \in (i + 1)..Len(all) : all[j].key # k]]

\* One loop of the second pass: append the collected attribute of every key
\* of list not added yet.
RECURSIVE AddUnseen(_, _, _, _)
AddUnseen(list, i, byKey, out) ==
    IF i > Len(list)
    THEN out
    ELSE AddUnseen(list, i + 1, byKey,
                   IF list[i].key \in Keys(out)
                   THEN out
                   ELSE Append(out, byKey[list[i].key]))

\* The Emitter's mergeAttrs over slices: it returns one of its inputs when
\* the other is empty, and a new clipped array otherwise.
EmitterMergeAttrs(heap, prevList, nextList) ==
    IF prevList.len > 0 /\ nextList.len < 1
    THEN [heap |-> heap, slice |-> prevList]
    ELSE IF prevList.len < 1 /\ nextList.len > 0
    THEN [heap |-> heap, slice |-> nextList]
    ELSE IF prevList.len < 1 /\ nextList.len < 1
    THEN [heap |-> Append(heap, <<>>),
          slice |-> [arr |-> Len(heap) + 1, len |-> 0, cap |-> 0]]
    ELSE LET p == EAttrs(heap, prevList)
             n == EAttrs(heap, nextList)
             byKey == EmitterAttrsByKey(p, n)
             out == AddUnseen(p, 1, byKey, AddUnseen(n, 1, byKey, <<>>))
         IN  [heap |-> Append(heap, out),
              slice |-> [arr |-> Len(heap) + 1, len |-> Len(out), cap |-> Len(out)]]

\* log: the attributes handed to lgr.LogAttrs, none when the level is off.
log(lgr, v, err, traceID, attrs) ==
    IF ~(v >= lgr)
    THEN <<>>
    ELSE <<(IF err THEN <<StringAttr(ErrorFieldName, "err")>> ELSE <<>>)
           \o (IF traceID # "" THEN <<StringAttr(TraceIDFieldName, traceID)>> ELSE <<>>)
           \o (IF Len(attrs) > 0 THEN <<SlogGroupAttrs(DataFieldName, attrs)>> ELSE <<>>)>>

NilSlice == [arr |-> 0, len |-> 0, cap |-> 0]

\* A caller's argument: nil when it holds nothing, else a slice literal, a
\* new array holding attrs.
Literal(heap, attrs) ==
    IF Len(attrs) = 0
    THEN [heap |-> heap, slice |-> NilSlice]
    ELSE [heap |-> Append(heap, attrs),
          slice |-> [arr |-> Len(heap) + 1, len |-> Len(attrs), cap |-> Len(attrs)]]

newEmitter(lgr, id, dataAttrs) == [lgr |-> lgr, id |-> id, attrs |-> dataAttrs]

DataOf(e) == EAttrs(eheap, emitters[e].attrs)

WithDataArgs == {<<>>, <<IntAttr("foo", 2)>>}

LogArgs == {<<>>, <<IntAttr("foo", 2), IntAttr("i", 1)>>}

EmitterCtxs ==
    {Background, SetID(Background, ""), SetID(SetID(Background, "a"), "b")}

\* logg.New(handler, dataAttrs...) with a handler enabled from Info on.
EmitterInit ==
    /\ \E attrs \in {<<>>, <<IntAttr("foo", 1), IntAttr("bar", 1)>>} :
          LET lit == Literal(<<>>, attrs)
          IN  /\ eheap = lit.heap
              /\ emitters = <<newEmitter(LevelInfo, "", lit.slice)>>
    /\ emitted = <<>>
    /\ ecall = [op |-> "New", ret |-> 1]
    /\ ectx = <<<<>>>>
    /\ RootIdle
    /\ MergeIdle
    /\ HandlerIdle

\* A log method: nothing when the level is off; otherwise the merged
\* attributes go to log and are kept nowhere.
Emit(name, e, lvl, err, attrs) ==
    LET l == emitters[e]
        lit == Literal(eheap, attrs)
        merged == EmitterMergeAttrs(lit.heap, l.attrs, lit.slice)
        out == log(l.lgr, lvl, err, l.id, EAttrs(merged.heap, merged.slice))
    IN  /\ ecall' = [op |-> name, e |-> e, attrs |-> attrs, logged |-> l.lgr <= lvl]
        /\ emitted' = out
        /\ eheap' = SubSeq(merged.heap, 1, Len(eheap))
        /\ UNCHANGED <<emitters, ectx>>
        /\ UNCHANGED <<mvars, hvars, rvars>>

Debug(e, attrs) == Emit("Debug", e, LevelDebug, FALSE, attrs)

Info(e, attrs) == Emit("Info", e, LevelInfo, FALSE, attrs)

Warn(e, attrs) == Emit("Warn", e, LevelWarn, FALSE, attrs)

Error(e, attrs) == Emit("Error", e, LevelError, TRUE, attrs)

WithIDKeepsFound(e, ctx) ==
    /\ emitters' = [emitters EXCEPT ![e].id =
                        IF GetID(ctx).found THEN GetID(ctx).id ELSE @]
    /\ ecall' = [op |-> "WithID", e |-> e, ctx |-> ctx, ret |-> e]
    /\ ectx' = [ectx EXCEPT ![e] = <<ctx>>]
    /\ emitted' = <<>>
    /\ UNCHANGED eheap
    /\ UNCHANGED <<mvars, hvars, rvars>>

\* l.WithID(ctx): l.id, _ = GetID(ctx); return l
WithID(e, ctx) ==
    /\ emitters' = [emitters EXCEPT ![e].id = GetID(ctx).id]
    /\ ecall' = [op |-> "WithID", e |-> e, ctx |-> ctx, ret |-> e]
    /\ ectx' = [ectx EXCEPT ![e] = <<ctx>>]
    /\ emitted' = <<>>
    /\ UNCHANGED eheap
    /\ UNCHANGED <<mvars, hvars, rvars>>

WithDataInPlace(e, attrs) ==
    LET l == emitters[e]
        lit == Literal(eheap, attrs)
        merged == EmitterMergeAttrs(lit.heap, l.attrs, lit.slice)
    IN  /\ eheap' = merged.heap
        /\ emitters' = [emitters EXCEPT ![e].attrs = merged.slice]
        /\ ecall' = [op |-> "WithData", e |-> e, attrs |-> attrs, ret |-> e]
        /\ UNCHANGED ectx
        /\ emitted' = <<>>
        /\ UNCHANGED <<mvars, hvars, rvars>>

\* l.WithData(attrs): a new Emitter holding mergeAttrs(l.attrs, attrs).
WithData(e, attrs) ==
    LET l == emitters[e]
        lit == Literal(eheap, attrs)
        merged == EmitterMergeAttrs(lit.heap, l.attrs, lit.slice)
    IN  /\ eheap' = merged.heap
        /\ emitters' = Append(emitters, newEmitter(l.lgr, l.id, merged.slice))
        /\ ecall' = [op |-> "WithData", e |-> e, attrs |-> attrs,
                     ret |-> Len(emitters) + 1]
        /\ ectx' = Append(ectx, <<>>)
        /\ emitted' = <<>>
        /\ UNCHANGED <<mvars, hvars, rvars>>

EmitterNext ==
    \E e \in DOMAIN emitters :
        \/ \E attrs \in WithDataArgs :
              Len(emitters) < MaxEmitters /\ WithData(e, attrs)
        \/ \E attrs \in LogArgs :
              \/ Debug(e, attrs)
              \/ Info(e, attrs)
              \/ Warn(e, attrs)
              \/ Error(e, attrs)
        \/ \E ctx \in EmitterCtxs : WithID(e, ctx)

SpecEmitter == EmitterInit /\ [][EmitterNext]_vars

----------------------------------------------------------------------------
(* Root logger (Configure, rootLogger, Infof, Errorf in logg.go)           *)

MaxWrites == 3      \* events counted per sink

Sinks == {"stderr", "w1", "w2"}

DefaultSink == "stderr"

\* Values of the LOGG_LEVEL environment variable.
LevelNames == {"", "debug", "ERROR"}

Versions == {<<>>, <<StringAttr("commit_hash", "feedface")>>}

\* newSlogger's switch over the upper-cased level name; Info for a name it
\* does not know.
ParseLevel(level) ==
    IF level \in {"debug", "DEBUG"} THEN LevelDebug
    ELSE IF level \in {"error", "ERROR"} THEN LevelError
    ELSE IF level \in {"warn", "WARN"} THEN LevelWarn
    ELSE LevelInfo

\* io.MultiWriter over sinks receives n events: every occurrence of a sink
\* in the list gets each of them.
WriteAll(w, sinks, n) ==
    [s \in Sinks |-> w[s] + n * Cardinality({i \in 1..Len(sinks) : sinks[i] = s})]

\* What the function handed to configureOnce.Do leaves: the root logger, and
\* the sinks after the two Debug events ("initialized logger", "configured
\* logger") a logger at the Debug level writes.
Configured(w, version, moreSinks, lvl) ==
    LET sinks == <<w>> \o moreSinks
        level == ParseLevel(lvl)
    IN  [root |-> <<[lgr |-> [sinks |-> sinks, level |-> level],
                     versioning |-> version]>>,
         written |-> WriteAll(written, sinks, IF level <= LevelDebug THEN 2 ELSE 0)]

OnceRunsAlways(done) == TRUE

\* sync.Once.Do: the function runs when none has run before.
OnceRuns(done) == ~done

RootInit ==
    /\ configureOnce = FALSE
    /\ root = <<>>
    /\ written = [s \in Sinks |-> 0]
    /\ rcall = [op |-> "none"]
    /\ EmitterIdle
    /\ MergeIdle
    /\ HandlerIdle

InBounds(w) == \A s \in Sinks : w[s] <= MaxWrites

\* Configure(w, version, moreSinks...), LOGG_LEVEL being lvl.
Configure(w, version, moreSinks, lvl) ==
    LET c == Configured(w, version, moreSinks, lvl)
    IN  /\ InBounds(c.written)
        /\ IF OnceRuns(configureOnce)
           THEN root' = c.root /\ written' = c.written
           ELSE UNCHANGED <<root, written>>
        /\ configureOnce' = TRUE
        /\ rcall' = [op |-> "Configure", w |-> w, version |-> version,
                     moreSinks |-> moreSinks]
        /\ UNCHANGED <<mvars, hvars, evars>>

\* Infof / Errorf: r := rootLogger(), which calls Configure(defaultSink,
\* nil) and returns root; then log writes one event when r's level allows.
RootLog(name, v, lvl) ==
    LET c == IF OnceRuns(configureOnce)
             THEN Configured(DefaultSink, <<>>, <<>>, lvl)
             ELSE [root |-> root, written |-> written]
        r == c.root[1]
        w == WriteAll(c.written, r.lgr.sinks, IF v >= r.lgr.level THEN 1 ELSE 0)
    IN  /\ InBounds(w)
        /\ root' = c.root
        /\ written' = w
        /\ configureOnce' = TRUE
        /\ rcall' = [op |-> name]
        /\ UNCHANGED <<mvars, hvars, evars>>

Infof(lvl) == RootLog("Infof", LevelInfo, lvl)

Errorf(lvl) == RootLog("Errorf", LevelError, lvl)

RootNext ==
    \E lvl \in LevelNames :
        \/ \E w \in Sinks, version \in Versions, moreSinks \in SeqsUpTo(Sinks, 1) :
              Configure(w, version, moreSinks, lvl)
        \/ Infof(lvl)
        \/ Errorf(lvl)

SpecRoot == RootInit /\ [][RootNext]_vars

----------------------------------------------------------------------------
(* Properties of the merge engine *)

\* Index of the first / last attribute of list with key k.
FirstPos(list, k) ==
    CHOOSE i \in 1..Len(list) :
        list[i].key = k /\ \A j \in 1..(i - 1) : list[j].key # k

LastPos(list, k) ==
    CHOOSE i \in 1..Len(list) :
        list[i].key = k /\ \A j \in (i + 1)..Len(list) : list[j].key # k

\* Place of key k in the order "keys of next by first occurrence, then the
\* keys only in prev by first occurrence".
Rank(prevList, nextList, k) ==
    IF k \in Keys(nextList) THEN FirstPos(nextList, k)
    ELSE Len(nextList) + FirstPos(prevList, k)

BothNonEmpty == Len(a0) > 0 /\ Len(b0) > 0

NonGroupIn(list, k) ==
    /\ k \in Keys(list)
    /\ \A i \in 1..Len(list) : list[i].key = k => ~IsGroup(list[i].val)

\* C2: a key present in both lists with non-group values carries, in the
\* output, the value of its last occurrence in next.
C2_Precedence ==
    mpc = "merged" =>
        \A k \in Keys(a0) \cap Keys(b0) :
            (NonGroupIn(a0, k) /\ NonGroupIn(b0, k)) =>
                /\ k \in Keys(MergeOut)
                /\ \A p \in 1..Len(MergeOut) :
                      MergeOut[p].key = k =>
                          MergeOut[p].val = b0[LastPos(b0, k)].val

C2_Witness ==
    /\ mpc = "merged"
    /\ a0 = <<IntAttr("g", 2)>>
    /\ b0 = <<IntAttr("g", 2), IntAttr("g", 1)>>
    /\ MergeOut = <<IntAttr("g", 1)>>

Occurrences(list, k) == {i \in 1..Len(list) : list[i].key = k}

OnceAsGroup(list, k) ==
    /\ Cardinality(Occurrences(list, k)) = 1
    /\ IsGroup(list[FirstPos(list, k)].val)

\* C3: a key holding one group in each non-empty list holds, in the output,
\* a group whose children are the merge of the two groups' children, also
\* for groups nested in those; [g:Group[x=1]] merged with [g:Group[y=2]]
\* is exactly [g:Group[y=2, x=1]].
C3_GroupDeepMerge ==
    (mpc = "merged" /\ BothNonEmpty) =>
        /\ \A k \in Keys(a0) \cap Keys(b0) :
              (OnceAsGroup(a0, k) /\ OnceAsGroup(b0, k)) =>
                  \E p \in 1..Len(MergeOut) :
                      /\ MergeOut[p].key = k
                      /\ IsGroup(MergeOut[p].val)
                      /\ MergeOut[p].val.attrs =
                            mergeAttrs(a0[FirstPos(a0, k)].val.attrs,
                                       b0[FirstPos(b0, k)].val.attrs).list
        /\ (/\ a0 = <<SlogGroupAttrs("g", <<IntAttr("x", 1)>>)>>
            /\ b0 = <<SlogGroupAttrs("g", <<IntAttr("y", 2)>>)>>)
              => MergeOut = <<[key |-> "g",
                               val |-> [kind |-> "Group",
                                        attrs |-> <<IntAttr("y", 2), IntAttr("x", 1)>>]]>>
        /\ (/\ a0 = <<SlogGroupAttrs("g", <<SlogGroupAttrs("h", <<IntAttr("x", 1)>>)>>)>>
            /\ b0 = <<SlogGroupAttrs("g", <<SlogGroupAttrs("h", <<IntAttr("y", 2)>>)>>)>>)
              => MergeOut = <<[key |-> "g",
                               val |-> [kind |-> "Group",
                                        attrs |-> <<[key |-> "h",
                                                     val |-> [kind |-> "Group",
                                                              attrs |-> <<IntAttr("y", 2), IntAttr("x", 1)>>]]>>]]>>

C3_Witness ==
    /\ mpc = "merged"
    /\ a0 = <<SlogGroupAttrs("g", <<SlogGroupAttrs("h", <<IntAttr("x", 1)>>)>>)>>
    /\ b0 = <<SlogGroupAttrs("g", <<SlogGroupAttrs("h", <<IntAttr("y", 2)>>)>>)>>
    /\ Len(MergeOut) = 1
    /\ Len(MergeOut[1].val.attrs[1].val.attrs) = 2

\* C4: the output of mergeAttrs holds each key at most once, also when one
\* of the lists is empty and the other holds duplicate keys.
C4_KeyUniqueness ==
    mpc = "merged" =>
        \A p \in 1..Len(MergeOut), q \in 1..Len(MergeOut) :
            p # q => MergeOut[p].key # MergeOut[q].key

\* C5: mergeAttrs returns a list that shares no storage with prev or next
\* (a write to the result changes no input, a write to an input does not
\* change the result) and leaves both inputs as they were.
C5_FreshResult ==
    /\ mpc # "start" => mout \notin {mprev, mnext}
    /\ mpc \in {"merged", "wroteResult"} =>
          mheap[mprev] = a0 /\ mheap[mnext] = b0
    /\ mpc = "wroteInput" => MergeOut = mergeAttrs(a0, b0).list

----------------------------------------------------------------------------
(* Properties of the handler *)

FramesNext(h) == SubSeq(fheap'[handlers'[h].goas.arr], 1, handlers'[h].goas.len)

\* C6: no WithGroup/WithAttrs derivation changes the frame list observed
\* through a handler that exists already (parent, sibling or other); the
\* new handler's frame list is a fresh array of exactly len(parent)+1.
C6_NoAliasing ==
    [][/\ \A h \in DOMAIN handlers :
             h \in DOMAIN handlers' /\ FramesNext(h) = Frames(h)
       /\ \A h \in (DOMAIN handlers') \ (DOMAIN handlers) :
             /\ handlers'[h].goas.len = handlers[lastOp'.h].goas.len + 1
             /\ handlers'[h].goas.cap = handlers'[h].goas.len
             /\ handlers'[h].goas.arr \notin DOMAIN fheap
             /\ \A i \in 1..Len(Frames(lastOp'.h)) :
                   FramesNext(h)[i] = Frames(lastOp'.h)[i]]_vars

\* S1 = S0.WithGroup("G"), S2 = S0.WithAttrs(batch), then a derivation
\* from S1.
C6_Witness ==
    /\ Len(handlers) = 4
    /\ Frames(2) = <<[GroupName |-> "G", Attrs |-> 0]>>
    /\ Frames(3) = <<[GroupName |-> "", Attrs |-> 1]>>
    /\ lastOp.op \in {"WithGroup", "WithAttrs"}
    /\ lastOp.h = 2
    /\ lastOp.ret = 4
    /\ Len(Frames(4)) = 2

\* C7: a Handle call leaves the handlers, their frame lists and every
\* attribute batch stored in the frames as they were.
C7_HandleModifiesNothing ==
    [][lastOp'.op = "Handle" =>
          (handlers' = handlers /\ fheap' = fheap /\ aheap' = aheap)]_vars

\* The attributes with key k among the attributes the sink received.
CapturedAt(k) == {p \in 1..Len(captured) : captured[p].key = k}

IsC8Scenario ==
    /\ lastOp.op = "Handle"
    /\ Lineage(lastOp.h) = <<[GroupName |-> "G", Attrs |-> <<>>],
                             [GroupName |-> "", Attrs |-> <<IntAttr("x", 1)>>]>>
    /\ lastOp.rec.Attrs = <<IntAttr("y", 2)>>

\* C8 as stated: WithGroup("G"), WithAttrs([x=1]) and a record with [y=2]
\* give the sink exactly one attribute G, a group with children x=1, y=2.
C8_AsStated ==
    IsC8Scenario =>
        /\ Cardinality(CapturedAt("G")) = 1
        /\ \A p \in CapturedAt("G") :
              captured[p].val = [kind |-> "Group",
                                 attrs |-> <<IntAttr("x", 1), IntAttr("y", 2)>>]

\* C8 amended: the sink receives exactly one attribute G, a group whose
\* children are y=2 then x=1.
C8_RecordAttrsFirst ==
    IsC8Scenario =>
        /\ Cardinality(CapturedAt("G")) = 1
        /\ \A p \in CapturedAt("G") :
              captured[p].val = [kind |-> "Group",
                                 attrs |-> <<IntAttr("y", 2), IntAttr("x", 1)>>]

C8_Witness == IsC8Scenario /\ opts.ReplaceAttr = "nil" /\ lastOp.rec.Time = 1

\* C9: without a ReplaceAttr callback, whatever the frames, the sink
\* receives a level attribute holding the record's level, a message
\* attribute holding the record's message, and a time attribute (holding
\* the record's time) exactly when the record's time is not zero.
C9_BuiltInsAlwaysPresent ==
    (lastOp.op = "Handle" /\ opts.ReplaceAttr = "nil") =>
        /\ \E p \in 1..Len(captured) : captured[p] = LevelAttr(lastOp.rec.Level)
        /\ \E p \in 1..Len(captured) : captured[p] = MsgAttr(lastOp.rec.Message)
        /\ (CapturedAt(TimeKey) # {}) <=> (lastOp.rec.Time # 0)
        /\ lastOp.rec.Time # 0 =>
              \E p \in 1..Len(captured) : captured[p] = TimeAttr(lastOp.rec.Time)

\* No attribute handed to Handle (in a batch or on the record) is zero.
NoZeroInput ==
    /\ \A i \in 1..Len(Lineage(lastOp.h)) :
          \A j \in 1..Len(Lineage(lastOp.h)[i].Attrs) :
              Lineage(lastOp.h)[i].Attrs[j] # ZeroAttr
    /\ \A j \in 1..Len(lastOp.rec.Attrs) : lastOp.rec.Attrs[j] # ZeroAttr

\* C10: an attribute for which ReplaceAttr returns the zero attribute is
\* not appended, so the sink receives no zero attribute.
C10_ZeroSuppressed ==
    (lastOp.op = "Handle" /\ NoZeroInput) =>
        \A p \in 1..Len(captured) : captured[p] # ZeroAttr

\* The key a renaming ReplaceAttr callback looks for, and the key it gives.
RenamedFrom(name) ==
    CASE name = "renameTime" -> TimeKey
      [] name = "renameLevel" -> LevelKey
      [] OTHER -> MessageKey

RenamedTo(name) ==
    CASE name = "renameTime" -> "timestamp"
      [] name = "renameLevel" -> "sev"
      [] OTHER -> "message"

IsRenamingHandle ==
    /\ lastOp.op = "Handle"
    /\ opts.ReplaceAttr \in {"renameTime", "renameLevel", "renameMsg"}

\* The group names pushed on handler h.
PushedGroups(h) ==
    SelectSeq(Lineage(h), LAMBDA f : f.GroupName # "")

\* The record carries, with no group in effect, an attribute whose key is
\* the key the callback looks for or the key it gives.
RecordCollides ==
    /\ Len(PushedGroups(lastOp.h)) = 0
    /\ Keys(RecordAttrs(lastOp.rec.Attrs, 1))
          \cap {RenamedFrom(opts.ReplaceAttr), RenamedTo(opts.ReplaceAttr)} # {}

\* C11 as stated: with a ReplaceAttr renaming the message, time or level
\* key, whatever the handler and the record, the sink receives the new key
\* exactly once and never the original key.
C11_AsStated ==
    IsRenamingHandle =>
        /\ Cardinality(CapturedAt(RenamedTo(opts.ReplaceAttr))) = 1
        /\ CapturedAt(RenamedFrom(opts.ReplaceAttr)) = {}

\* C11 amended: the sink never receives the original key at the top level;
\* it receives the new key exactly once unless the renamed key is the time
\* key and the record's time is zero, or the record carries an attribute
\* with the original or the new key while no group is in effect.
C11_RenamedOnce ==
    IsRenamingHandle =>
        /\ CapturedAt(RenamedFrom(opts.ReplaceAttr)) = {}
        /\ (/\ opts.ReplaceAttr = "renameTime" => lastOp.rec.Time # 0
            /\ ~RecordCollides)
              => Cardinality(CapturedAt(RenamedTo(opts.ReplaceAttr))) = 1

\* The message key renamed under a lineage holding a group and a batch.
C11_Witness ==
    /\ IsRenamingHandle
    /\ opts.ReplaceAttr = "renameMsg"
    /\ Len(Lineage(lastOp.h)) = MaxFrames
    /\ lastOp.rec.Attrs = <<IntAttr("y", 2)>>
    /\ Cardinality(CapturedAt("message")) = 1

\* The group names pushed before frame i of a lineage.
PathBefore(lin, i) ==
    LET pushes == SelectSeq(SubSeq(lin, 1, i - 1), LAMBDA f : f.GroupName # "")
    IN  [k \in 1..Len(pushes) |-> pushes[k].GroupName]

CalledWith(cs, groups, attr) ==
    \E k \in DOMAIN cs : cs[k] = [groups |-> groups, attr |-> attr]

\* C12: when ReplaceAttr is configured, a Handle call passes to it every
\* built-in attribute with the empty group path, and every attribute of
\* every accumulated batch and every record attribute with the path of the
\* groups that enclose it in the output.
C12_ReplaceAttrForEveryAttr ==
    [][(lastOp'.op = "Handle" /\ opts.ReplaceAttr # "nil") =>
          LET lin == Lineage(lastOp'.h)
              rec == lastOp'.rec
              recordAttrs == RecordAttrs(rec.Attrs, 1)
          IN  /\ rec.Time # 0 => CalledWith(calls', <<>>, TimeAttr(rec.Time))
              /\ CalledWith(calls', <<>>, LevelAttr(rec.Level))
              /\ CalledWith(calls', <<>>, MsgAttr(rec.Message))
              /\ \A i \in DOMAIN lin : lin[i].GroupName = "" =>
                    \A j \in DOMAIN lin[i].Attrs :
                        CalledWith(calls', PathBefore(lin, i), lin[i].Attrs[j])
              /\ \A j \in DOMAIN recordAttrs :
                    CalledWith(calls', PathBefore(lin, Len(lin) + 1), recordAttrs[j])
    ]_vars

RECURSIVE AllKeys(_)

\* The keys of a list of attributes, at every depth.
AllKeys(attrs) ==
    IF Len(attrs) = 0 THEN {}
    ELSE {attrs[1].key}
         \cup (IF IsGroup(attrs[1].val) THEN AllKeys(attrs[1].val.attrs) ELSE {})
         \cup AllKeys(Tail(attrs))

RECURSIVE ChildrenAt(_, _)

\* The children of the group reached by following path from attrs, the
\* empty list if there is no such group.
ChildrenAt(attrs, path) ==
    IF Len(path) = 0 THEN attrs
    ELSE LET here == SelectSeq(attrs, LAMBDA a : a.key = path[1] /\ IsGroup(a.val))
         IN  IF Len(here) = 0 THEN <<>>
             ELSE ChildrenAt(here[1].val.attrs, Tail(path))

\* The index of the last batch frame of a lineage, 0 if it has none.
LastBatch(lin) ==
    LET is == {i \in DOMAIN lin : lin[i].GroupName = ""}
    IN  IF is = {} THEN 0 ELSE CHOOSE i \in is : \A j \in is : j <= i

TrailingNames(lin) ==
    {lin[i].GroupName : i \in {j \in DOMAIN lin : j > LastBatch(lin)}}

PrecedingNames(lin) ==
    {lin[i].GroupName : i \in {j \in DOMAIN lin : j < LastBatch(lin)}} \ {""}

\* C13: a handler whose frames end in WithGroup frames handles a record
\* with no attributes: the names of those trailing groups (unless a group
\* in front of a batch bears the same name) appear nowhere in what the sink
\* receives, and every batch attached under groups is still found under the
\* path of those groups.
C13_TrailingGroupsElided ==
    LET lin == Lineage(lastOp.h)
    IN  (/\ lastOp.op = "Handle"
         /\ lastOp.rec.Attrs = <<>>
         /\ TrailingNames(lin) # {})
        => /\ (TrailingNames(lin) \ PrecedingNames(lin)) \cap AllKeys(captured) = {}
           /\ \A i \in DOMAIN lin :
                 (lin[i].GroupName = "" /\ PathBefore(lin, i) # <<>>)
                 => /\ Keys(lin[i].Attrs) # {}
                    /\ Keys(lin[i].Attrs)
                          \subseteq Keys(ChildrenAt(captured, PathBefore(lin, i)))

\* WithGroup("G"), WithAttrs([x=1]), WithGroup("H"), then a record without
\* attributes: x is under G and there is no H.
C13_Witness ==
    /\ lastOp.op = "Handle"
    /\ lastOp.rec.Attrs = <<>>
    /\ Lineage(lastOp.h) = <<[GroupName |-> "G", Attrs |-> <<>>],
                             [GroupName |-> "", Attrs |-> <<IntAttr("x", 1)>>],
                             [GroupName |-> "H", Attrs |-> <<>>]>>
    /\ ChildrenAt(captured, <<"G">>) = <<IntAttr("x", 1)>>
    /\ "H" \notin AllKeys(captured)

RECURSIVE HasZeroAttr(_)

\* Some attribute of the list, at any depth, is the zero Attr.
HasZeroAttr(attrs) ==
    /\ Len(attrs) > 0
    /\ \/ attrs[1] = ZeroAttr
       \/ IsGroup(attrs[1].val) /\ HasZeroAttr(attrs[1].val.attrs)
       \/ HasZeroAttr(Tail(attrs))

\* C14: whether an empty attribute comes with the record, in a batch given
\* to WithAttrs or as a child of an inlined group with an empty key, what
\* the sink receives holds no empty attribute (ReplaceAttr callbacks that
\* themselves return the empty attribute set aside).
C14_EmptyAttrsDiscarded ==
    (lastOp.op = "Handle" /\ opts.ReplaceAttr # "dropTime")
        => ~HasZeroAttr(captured)

RECURSIVE InlinedOnce(_)

\* A list of attributes with each group of empty key replaced, where it
\* stands, by its children.
InlinedOnce(attrs) ==
    IF Len(attrs) = 0 THEN <<>>
    ELSE (IF IsGroup(attrs[1].val) /\ attrs[1].key = ""
          THEN attrs[1].val.attrs
          ELSE <<attrs[1]>>)
         \o InlinedOnce(Tail(attrs))

\* What the sink received of the record's own attributes: the end of the
\* output when no group is in effect, else the front of the children of the
\* innermost group (n attributes).
RecordPart(n) ==
    LET path == PathBefore(Lineage(lastOp.h), Len(Lineage(lastOp.h)) + 1)
        under == ChildrenAt(captured, path)
    IN  IF path = <<>>
        THEN SubSeq(captured, Len(captured) - n + 1, Len(captured))
        ELSE SubSeq(under, 1, n)

HasGroupAttr(attrs) == \E j \in DOMAIN attrs : IsGroup(attrs[j].val)

\* C15: a record attribute that is a group with an empty key reaches the
\* sink as its children, in order and where the group stood, one level only
\* (a group with an empty key among the children stays a group); a group
\* with a key stays one group attribute under that key.  Records holding
\* empty attributes are C14's matter.
C15_EmptyKeyGroupInlined ==
    (/\ lastOp.op = "Handle"
     /\ HasGroupAttr(lastOp.rec.Attrs)
     /\ ~HasZeroAttr(lastOp.rec.Attrs))
    => RecordPart(Len(InlinedOnce(lastOp.rec.Attrs))) = InlinedOnce(lastOp.rec.Attrs)

\* a=1, a group with an empty key holding x=1 and another such group, and a
\* group g, handled under a group path: a, x, the inner group, g.
C15_Witness ==
    /\ lastOp.op = "Handle"
    /\ Len(PushedGroups(lastOp.h)) > 0
    /\ Len(lastOp.rec.Attrs) = 3
    /\ lastOp.rec.Attrs[2].key = ""
    /\ RecordPart(4) = <<IntAttr("a", 1),
                         IntAttr("x", 1),
                         SlogGroupAttrs("", <<IntAttr("z", 1)>>),
                         SlogGroupAttrs("g", <<IntAttr("x", 1)>>)>>

\* The call on h returned h itself and left handlers and frames alone.
ReturnedReceiver(h) ==
    /\ lastOp'.ret = h
    /\ handlers' = handlers
    /\ fheap' = fheap
    /\ aheap' = aheap

\* The call on h returned a new handler whose frames are those of h and
\* then one frame of the given group name and batch; h kept its frames.
ReturnedWithOneMore(h, name, attrs) ==
    LET ret == lastOp'.ret
        n == Len(Frames(h))
    IN  /\ ret \notin DOMAIN handlers
        /\ DOMAIN handlers' = DOMAIN handlers \cup {ret}
        /\ Len(FramesNext(ret)) = n + 1
        /\ SubSeq(FramesNext(ret), 1, n) = Frames(h)
        /\ FramesNext(ret)[n + 1].GroupName = name
        /\ IF name # "" THEN FramesNext(ret)[n + 1].Attrs = 0
                        ELSE aheap'[FramesNext(ret)[n + 1].Attrs] = attrs
        /\ FramesNext(h) = Frames(h)

\* C16: WithGroup("") and WithAttrs of an empty list return the receiver
\* and add no frame; any other WithGroup or WithAttrs returns a new handler
\* whose frames are the receiver's followed by exactly one new frame, the
\* receiver keeping its frames.
C16_OneFrameOrReceiver ==
    [][/\ lastOp'.op = "WithGroup" =>
            \A name \in GroupNames : WithGroup(lastOp'.h, name) =>
               IF name = "" THEN ReturnedReceiver(lastOp'.h)
                            ELSE ReturnedWithOneMore(lastOp'.h, name, <<>>)
       /\ lastOp'.op = "WithAttrs" =>
            \A attrs \in Batches : WithAttrs(lastOp'.h, attrs) =>
               IF attrs = <<>> THEN ReturnedReceiver(lastOp'.h)
                              ELSE ReturnedWithOneMore(lastOp'.h, "", attrs)]_vars

\* WithGroup("") on a derived handler has just returned that handler.
C16_Witness ==
    /\ lastOp.op = "WithGroup"
    /\ lastOp.ret = lastOp.h
    /\ Len(Frames(lastOp.h)) = 2
    /\ Len(handlers) = 3

\* C17: of the Handle calls made on a handler and on the handlers derived
\* from it, at most one is inside the capture callback at any time.
C17_OneCaptureAtATime ==
    Cardinality({t \in DOMAIN threads : threads[t].pc = "capturing"}) <= 1

\* One goroutine is inside the capture callback for the root handler while
\* another, handling on the derived handler, waits for the mutex.
C17_Witness ==
    \E t, u \in DOMAIN threads :
        /\ threads[t].pc = "capturing"
        /\ threads[u].pc = "lock"
        /\ threads[t].h = 1
        /\ threads[u].h = 2

\* C18: a goroutine builds the final attributes of a record only while it
\* holds the handler's mutex.
C18_BuildUnderMutex ==
    \A t \in DOMAIN threads :
        threads[t].pc = "building" => mtx[handlers[threads[t].h].mtx] = t

\* No array of frames that a handler or another goroutine refers to is
\* written by a step.
WritesOwnStorageOnly ==
    \A arr \in DOMAIN fheap :
        fheap'[arr] # fheap[arr] =>
            /\ \A h \in DOMAIN handlers : handlers[h].goas.arr # arr
            /\ Cardinality({t \in Deriving : threads[t].out.arr = arr}) = 1

\* C19: goroutines derive from the same parent with no synchronization:
\* under every interleaving of the steps of copyAppend no step writes an
\* array of frames other than the one its own call allocated, every
\* handler keeps its frames, and the handler a call returns has the
\* parent's frames followed by the frame of that call.
C19_ConcurrentDerivation ==
    [][/\ WritesOwnStorageOnly
       /\ \A h \in DOMAIN handlers :
             h \in DOMAIN handlers' /\ FramesNext(h) = Frames(h)
       /\ \A t \in DOMAIN threads :
             (threads[t].pc = "return" /\ threads'[t].pc = "done")
                 => FramesNext(threads'[t].retH)
                      = Append(Frames(threads[t].h), threads[t].frame)]_vars

\* Two goroutines derived from the same parent; the one that allocated
\* its array first returned last.
C19_Witness ==
    \E t, u \in DOMAIN threads :
        /\ threads[t].pc = "done" /\ threads[u].pc = "done"
        /\ threads[t].op = "WithGroup" /\ threads[u].op = "WithAttrs"
        /\ threads[t].h = threads[u].h
        /\ threads[t].out.arr # 0 /\ threads[u].out.arr # 0
        /\ threads[t].out.arr < threads[u].out.arr
        /\ threads[t].retH > threads[u].retH
        /\ Frames(threads[t].retH) = Append(Frames(threads[t].h), threads[t].frame)
        /\ Frames(threads[u].retH) = Append(Frames(threads[u].h), threads[u].frame)

\* C20: a Handle call that has returned entered the capture callback
\* exactly once and returned what the callback returned, if a callback is
\* configured; with none (nil options, nil CaptureRecord) it entered
\* nothing and returned nil.  No call enters the callback twice.
C20_CaptureOnceOutcomeReturned ==
    \A t \in DOMAIN threads :
        /\ threads[t].invoked <= 1
        /\ (threads[t].op = "Handle" /\ threads[t].pc = "done") =>
              IF opts.CaptureRecord # "nil"
              THEN threads[t].invoked = 1 /\ threads[t].retErr = threads[t].err
              ELSE threads[t].invoked = 0 /\ threads[t].retErr = "nil"

\* One Handle call returned the callback's error, another returned nil.
C20_Witness ==
    \E t, u \in DOMAIN threads :
        /\ threads[t].op = "Handle" /\ threads[t].pc = "done"
        /\ threads[t].invoked = 1 /\ threads[t].retErr = "err"
        /\ threads[u].op = "Handle" /\ threads[u].pc = "done"
        /\ threads[u].invoked = 1 /\ threads[u].retErr = "nil"

\* C21: Enabled(level) is true exactly when level is at least the minimum
\* the handler was created with, INFO without options or without a Level,
\* on the root handler and on every handler derived from it.
C21_EnabledIffAtLeastMinimum ==
    lastOp.op = "Enabled" =>
        (lastOp.ret <=> IF opts.Level = <<>> THEN lastOp.lvl >= LevelInfo
                                             ELSE lastOp.lvl >= opts.Level[1])

\* Without a Level, a derived handler is asked about DEBUG and says no.
C21_Witness ==
    /\ lastOp.op = "Enabled"
    /\ opts.Level = <<>>
    /\ Len(Frames(lastOp.h)) = MaxFrames
    /\ lastOp.lvl = LevelDebug
    /\ lastOp.ret = FALSE

\* The group path in effect when handler h emits rec: the names pushed on
\* h, without the trailing ones when rec has no attributes.
EmissionPath(h, rec) ==
    LET lin == Lineage(h)
        n == IF Len(rec.Attrs) < 1 THEN LastBatch(lin) ELSE Len(lin)
    IN  PathBefore(lin, n + 1)

\* The replaceAttr calls of the last Handle that follow those made for the
\* built-ins and for the accumulated batches.
RecordCalls ==
    LET rec == lastOp.rec
        goas == IF Len(rec.Attrs) < 1 THEN TrimGroups(Frames(lastOp.h))
                                      ELSE Frames(lastOp.h)
        before == (IF rec.Time # 0 THEN 3 ELSE 2)
                  + Len(GoasCalls(opts.ReplaceAttr, goas, 1, <<>>, aheap))
    IN  SubSeq(calls, before + 1, Len(calls))

\* C26: with no group in effect at emission, replaceAttr is called once for
\* each record attribute and no more; with a group in effect it is called
\* once more, for the wrapping top-level group.
C26_ReplaceAttrOncePerRecordAttr ==
    (lastOp.op = "Handle" /\ opts.ReplaceAttr # "nil") =>
        LET recordAttrs == RecordAttrs(lastOp.rec.Attrs, 1)
            path == EmissionPath(lastOp.h, lastOp.rec)
        IN  IF path = <<>>
            THEN /\ Len(RecordCalls) = Len(recordAttrs)
                 /\ \A j \in DOMAIN recordAttrs :
                       RecordCalls[j] = [groups |-> <<>>, attr |-> recordAttrs[j]]
            ELSE /\ Len(RecordCalls) = Len(recordAttrs) + 1
                 /\ RecordCalls[Len(RecordCalls)].attr.key = path[1]
                 /\ IsGroup(RecordCalls[Len(RecordCalls)].attr.val)

\* The record attributes as they are added to the output with no group in
\* effect: inlined, passed through replaceAttr, empty groups left out.
RecordAttrsAdded ==
    LET name == opts.ReplaceAttr
    IN  AddAttrs(ReplaceAll(name, <<>>,
                     ReplaceAll(name, <<>>, RecordAttrs(lastOp.rec.Attrs, 1))))

\* What the sink receives from the same handler for the same record
\* without its attributes.
CapturedWithoutAttrs ==
    AddAttrs(buildRecordAttrs(opts.ReplaceAttr, Frames(lastOp.h),
                              [lastOp.rec EXCEPT !.Attrs = <<>>], aheap).out)

\* C27: with no group in effect at emission the output is the output for
\* the record without its attributes followed by the record's attributes
\* in their order, none of them dropped or merged because of its key; with
\* a group in effect the top-level keys of the output are pairwise distinct.
C27_AppendOrMerge ==
    lastOp.op = "Handle" =>
        IF EmissionPath(lastOp.h, lastOp.rec) = <<>>
        THEN captured = CapturedWithoutAttrs \o RecordAttrsAdded
        ELSE \A p \in DOMAIN captured, q \in DOMAIN captured :
                 p # q => captured[p].key # captured[q].key

\* No group, a batch level=1 and a record attribute level=2: the sink
\* receives the batch's level and, last, the record's.
C27_Witness ==
    /\ lastOp.op = "Handle"
    /\ opts.ReplaceAttr = "nil"
    /\ EmissionPath(lastOp.h, lastOp.rec) = <<>>
    /\ Lineage(lastOp.h) = <<[GroupName |-> "", Attrs |-> <<IntAttr(LevelKey, 1)>>]>>
    /\ lastOp.rec.Attrs = <<IntAttr(LevelKey, 2)>>
    /\ Cardinality(CapturedAt(LevelKey)) = 2
    /\ captured[Len(captured)] = IntAttr(LevelKey, 2)

RECURSIVE KeyPaths(_, _)

\* Where every attribute of a list stands, those inside groups included:
\* the names of the groups around it and its key.
KeyPaths(attrs, path) ==
    IF Len(attrs) = 0 THEN {}
    ELSE {[path |-> path, key |-> attrs[1].key]}
         \cup (IF IsGroup(attrs[1].val)
               THEN KeyPaths(attrs[1].val.attrs, Append(path, attrs[1].key))
               ELSE {})
         \cup KeyPaths(Tail(attrs), path)

\* Where the groups of a path themselves stand.
GroupsOf(path) ==
    {[path |-> SubSeq(path, 1, i - 1), key |-> path[i]] : i \in 1..Len(path)}

\* Where the claim puts everything handler h emits for rec: the built-ins at
\* the top, each batch under the groups pushed before it, the record's
\* attributes under all the groups pushed.
NestingOf(h, rec) ==
    LET lin == Lineage(h)
        all == PathBefore(lin, Len(lin) + 1)
        recordAttrs == RecordAttrs(rec.Attrs, 1)
    IN  {[path |-> <<>>, key |-> k] :
            k \in {LevelKey, MessageKey} \cup (IF rec.Time # 0 THEN {TimeKey} ELSE {})}
        \cup UNION {KeyPaths(lin[i].Attrs, PathBefore(lin, i))
                      \cup GroupsOf(PathBefore(lin, i)) :
                    i \in {j \in DOMAIN lin : lin[j].GroupName = ""}}
        \cup KeyPaths(recordAttrs, all) \cup GroupsOf(all)

\* The attribute, or what ReplaceAttr makes of it, is among the children of
\* the group at path.
FoundUnder(path, a) ==
    \E j \in DOMAIN ChildrenAt(captured, path) :
        ChildrenAt(captured, path)[j] \in {a, replaceAttr(opts.ReplaceAttr, path, a)}

HasNonEmptyAttr(rec) ==
    \E j \in DOMAIN RecordAttrs(rec.Attrs, 1) : RecordAttrs(rec.Attrs, 1)[j] # ZeroAttr

Superseded(lin, i, a, recordAttrs) ==
    \/ \E k \in DOMAIN lin :
          /\ k > i
          /\ lin[k].GroupName = ""
          /\ PathBefore(lin, k) = PathBefore(lin, i)
          /\ a.key \in Keys(lin[k].Attrs)
    \/ /\ PathBefore(lin, Len(lin) + 1) = PathBefore(lin, i)
       /\ PathBefore(lin, i) # <<>>
       /\ a.key \in Keys(recordAttrs)

BuiltOut ==
    buildRecordAttrs(opts.ReplaceAttr, Frames(lastOp.h), lastOp.rec, aheap).out

\* C29: the built-ins (as ReplaceAttr returns them) are the first elements
\* of the output of buildRecordAttrs when the lineage has no batch and no
\* group is in effect at emission; with a group in effect the first element
\* is the outermost group, and with batches and no group it is the first
\* attribute of the batch attached last.  The sink receives that output
\* less its empty groups.
C29_BuiltInsFirstOnlyWhenBare ==
    lastOp.op = "Handle" =>
        LET lin == Lineage(lastOp.h)
            path == EmissionPath(lastOp.h, lastOp.rec)
            builtIns == BuiltIns(opts.ReplaceAttr, lastOp.rec)
        IN  /\ IF path # <<>>
               THEN BuiltOut[1].key = path[1] /\ IsGroup(BuiltOut[1].val)
               ELSE IF LastBatch(lin) # 0
               THEN BuiltOut[1] = replaceAttr(opts.ReplaceAttr, <<>>,
                                              lin[LastBatch(lin)].Attrs[1])
               ELSE SubSeq(BuiltOut, 1, Len(builtIns)) = builtIns
            /\ captured = AddAttrs(BuiltOut)

\* WithAttrs([x=1]) and a record with y=2 and a time: x, time, level,
\* message, y.
C29_Witness ==
    /\ lastOp.op = "Handle"
    /\ opts.ReplaceAttr = "nil"
    /\ Lineage(lastOp.h) = <<[GroupName |-> "", Attrs |-> <<IntAttr("x", 1)>>]>>
    /\ lastOp.rec.Attrs = <<IntAttr("y", 2)>>
    /\ lastOp.rec.Time = 1
    /\ captured = <<IntAttr("x", 1)>> \o BuiltIns("nil", lastOp.rec)
                     \o <<IntAttr("y", 2)>>

\* C28: Handle does not look at the level: whatever the record's level and
\* the handler's minimum, it builds the attributes, the level among them,
\* and invokes the sink once.
C28_HandleDoesNotFilter ==
    lastOp.op = "Handle" =>
        /\ lastOp.invoked = 1
        /\ \E i \in DOMAIN captured : captured[i] = LevelAttr(lastOp.rec.Level)
        /\ captured =
              AddAttrs(buildRecordAttrs(opts.ReplaceAttr, Frames(lastOp.h),
                                        lastOp.rec, aheap).out)

\* A DEBUG record reaches the sink of a handler whose minimum is above
\* ERROR, for which Enabled(DEBUG) is false.
C28_Witness ==
    /\ lastOp.op = "Handle"
    /\ opts.Level = <<LevelError + 1>>
    /\ lastOp.rec.Level = LevelDebug
    /\ ~Enabled(opts, lastOp.rec.Level)
    /\ lastOp.invoked = 1
    /\ \E i \in DOMAIN captured : captured[i] = LevelAttr(LevelDebug)

\* C25: a key that occurs in next only, however often and with whatever
\* kinds, carries in the output of mergeAttrs(prev, next), both non-empty,
\* the attribute of its last occurrence in next: duplicates within next
\* overwrite one another and are never deep-merged with one another.
C25_LastWithinNextWins ==
    (mpc = "merged" /\ BothNonEmpty) =>
        \A k \in Keys(b0) \ Keys(a0) :
            \A p \in 1..Len(MergeOut) :
                MergeOut[p].key = k => MergeOut[p] = b0[LastPos(b0, k)]

----------------------------------------------------------------------------
(* Properties of the Emitter *)

LogOps == {"Debug", "Info", "Warn", "Error"}

\* The children of the "data" group of an emission, none without the group.
DataEmitted(out) ==
    LET d == SelectSeq(out, LAMBDA a : a.key = DataFieldName)
    IN  IF Len(d) = 0 THEN <<>> ELSE d[1].val.attrs

DataOfNext(e) == EAttrs(eheap', emitters'[e].attrs)

TraceEmitted(out) ==
    LET t == SelectSeq(out, LAMBDA a : a.key = TraceIDFieldName)
    IN  IF Len(t) = 0 THEN <<>> ELSE <<t[1].val.v>>

\* WithID returns its receiver, makes no Emitter and changes the tracing ID
\* of its receiver only; no other call changes a tracing ID.
WithIDInPlace ==
    /\ ecall'.op = "WithID"
          => /\ ecall'.ret = ecall'.e
             /\ DOMAIN emitters' = DOMAIN emitters
             /\ \A e \in DOMAIN emitters \ {ecall'.e} : emitters'[e] = emitters[e]
             /\ emitters'[ecall'.e] =
                    [emitters[ecall'.e] EXCEPT !.id = GetID(ecall'.ctx).id]
    /\ ecall'.op # "WithID"
          => \A e \in DOMAIN emitters : emitters'[e].id = emitters[e].id

\* An enabled log call on an Emitter that WithID was called on.
LogsAfterWithID ==
    /\ ecall'.op \in LogOps
    /\ ecall'.logged
    /\ Len(ectx[ecall'.e]) = 1

\* C30 as stated: WithID overwrites in place and returns the receiver; a
\* later event carries the ID found in ctx, whatever it is, and none when
\* ctx holds no ID.
C30_AsStated ==
    [][/\ WithIDInPlace
       /\ LogsAfterWithID
             => LET got == GetID(ectx[ecall'.e][1])
                IN  TraceEmitted(emitted'[1]) =
                        IF got.found THEN <<got.id>> ELSE <<>>]_vars

\* C30 amended: WithID overwrites in place and returns the receiver; a
\* later event carries the ID found in ctx when that ID is not empty, and
\* no x_trace_id when ctx holds no ID or an empty one.
C30_WithIDOverwritesInPlace ==
    [][/\ WithIDInPlace
       /\ LogsAfterWithID
             => LET got == GetID(ectx[ecall'.e][1])
                IN  TraceEmitted(emitted'[1]) =
                        IF got.id # "" THEN <<got.id>> ELSE <<>>]_vars

\* An Emitter that carried the ID "b" had WithID called with a context
\* holding none, and its next event has no x_trace_id.
C30_Witness ==
    /\ ecall.op = "Info"
    /\ ectx[ecall.e] = <<Background>>
    /\ Len(emitters) = 2
    /\ emitters[3 - ecall.e].id = "b"
    /\ ectx[3 - ecall.e] = <<>>
    /\ Len(emitted) = 1
    /\ TraceEmitted(emitted[1]) = <<>>

----------------------------------------------------------------------------
(* Properties of the root logger *)

\* C23: once configuration has happened, by a Configure call or by a
\* package-level log call, no later call changes the root logger (its
\* versioning and sinks included), and a later Configure call writes
\* nothing; a log call made before any Configure configures the default
\* sink with no versioning; events go to the sinks of the root logger only.
C23_ConfiguredAtMostOnce ==
    [][/\ configureOnce'
       /\ configureOnce => root' = root
       /\ (configureOnce /\ rcall'.op = "Configure") => written' = written
       /\ (~configureOnce /\ rcall'.op \in {"Infof", "Errorf"})
             => /\ root'[1].lgr.sinks = <<DefaultSink>>
                /\ root'[1].versioning = <<>>
       /\ \A s \in Sinks :
             written'[s] # written[s]
                => \E i \in DOMAIN root'[1].lgr.sinks : root'[1].lgr.sinks[i] = s]_vars

\* After events went to standard error by default, Configure is called
\* with another sink and versioning, and the root logger is still the
\* default one.
C23_Witness ==
    /\ rcall.op = "Configure"
    /\ rcall.w = "w1"
    /\ rcall.version # <<>>
    /\ root[1].lgr.sinks = <<DefaultSink>>
    /\ root[1].versioning = <<>>
    /\ written[DefaultSink] > 0
    /\ written["w1"] = 0
====
